---------------------------- MODULE Spec2Model ----------------------------
(***************************************************************************)
(* TrocZen ORACLE: the permit identifier logic (oracle/permit_manager.py), *)
(* the attestation handler (oracle/oracle_service.py) and the message loop *)
(* of the daemon (nostr_daemon.py), over a relay that stores events; the   *)
(* credential generator (oracle/credential_generator.py); the daemon's     *)
(* reconnect loop and the end of its process (nostr_daemon.py); the relay  *)
(* client's queries (nostr_client.py); the social graph and the daily      *)
(* amount of the DU engine (dragon/du_engine.py); the parameters of the    *)
(* params engine (dragon/params_engine.py); the inter-market rates and the *)
(* event parsing of the circuit indexer (dragon/circuit_indexer.py); the   *)
(* market tags of the engines' queries; the operations of one              *)
(* DragonService on its shared client (dragon/dragon_service.py).          *)
(*                                                                         *)
(* Text values of the program (permit ids, event ids, `d` identifiers) are *)
(* sequences of one-character strings, so that the regular expressions and *)
(* substring tests of the source are computed on the characters.           *)
(***************************************************************************)
EXTENDS Integers, Sequences, FiniteSets, TLC

VARIABLES
    events,        \* the relay's stored events
    sent,          \* the frames written to the daemon's websocket, in order
    taken,         \* how many of them the relay has taken
    now,           \* int(time.time())
    libAvailable,  \* nostr_protocol can be imported in this process
    pc,            \* where the daemon's loop stands
    step,          \* where the latest process_attestation call returned
    pid,           \* permit-id input of the pure permit functions
    applied,       \* their results for pid, once applied
    gen,           \* a credential being produced: the arguments and the result
    key,           \* ORACLE_NSEC_HEX of the daemon's environment
    dpc,           \* where the daemon process stands
    retry_count,   \* retry_count of listen_to_nostr
    delay,         \* seconds of the asyncio.sleep under way
    fails,         \* passes of the loop that ended in an exception since the
                   \* connection was last opened (or since the start)
    relayUp,       \* the relay accepts connections
    exit_code,     \* exit status of the process, -1 while it runs
    query,         \* one NostrClient.query_events call: its position, its
                   \* local `events`, what the socket delivered, its result
    page,          \* one NostrClient.query_events_paginated call
    du,            \* one call of the DU engine: the contact lists the relay
                   \* holds, the call, its arguments and what it returned
    dragon         \* the other DRAGON engines (parameters, circuits, service):
                   \* what the relay holds for the call and what it returned

oracleVars == <<events, sent, taken, now, libAvailable, pc, step>>
permitVars == <<pid, applied>>
genVars == <<gen>>
daemonVars == <<key, dpc, retry_count, delay, fails, relayUp, exit_code>>

queryVars == <<query>>
pageVars == <<page>>
duVars == <<du>>
dragonVars == <<dragon>>

vars == <<oracleVars, permitVars, genVars, daemonVars, queryVars, pageVars,
          duVars, dragonVars>>

\* the variables of the other components, which an action of one leaves alone
besideOracle ==
    <<genVars, daemonVars, queryVars, pageVars, duVars, dragonVars>>
besidePermit ==
    <<genVars, daemonVars, queryVars, pageVars, duVars, dragonVars>>
besideGen ==
    <<permitVars, daemonVars, queryVars, pageVars, duVars, dragonVars>>
besideDaemon ==
    <<oracleVars, permitVars, genVars, queryVars, pageVars, duVars, dragonVars>>
besideQuery ==
    <<oracleVars, permitVars, genVars, daemonVars, pageVars, duVars, dragonVars>>
besidePage ==
    <<oracleVars, permitVars, genVars, daemonVars, queryVars, duVars, dragonVars>>
besideDU ==
    <<oracleVars, permitVars, genVars, daemonVars, queryVars, pageVars, dragonVars>>
besideDragon ==
    <<oracleVars, permitVars, genVars, daemonVars, queryVars, pageVars, duVars>>

----------------------------------------------------------------------------
(* Characters and text                                                      *)

UpperChars == {"A","B","C","D","E","F","G","H","I","J","K","L","M",
               "N","O","P","Q","R","S","T","U","V","W","X","Y","Z"}

DigitChars == {"0","1","2","3","4","5","6","7","8","9"}

\* [A-Z0-9_] of PERMIT_ID_PATTERN
NameChars == UpperChars \cup DigitChars \cup {"_"}

DigitValue(c) ==
    CASE c = "0" -> 0 [] c = "1" -> 1 [] c = "2" -> 2 [] c = "3" -> 3
      [] c = "4" -> 4 [] c = "5" -> 5 [] c = "6" -> 6 [] c = "7" -> 7
      [] c = "8" -> 8 [] c = "9" -> 9

DigitChar(n) ==
    CASE n = 0 -> "0" [] n = 1 -> "1" [] n = 2 -> "2" [] n = 3 -> "3"
      [] n = 4 -> "4" [] n = 5 -> "5" [] n = 6 -> "6" [] n = 7 -> "7"
      [] n = 8 -> "8" [] n = 9 -> "9"

\* \d+
IsDigits(s) == Len(s) > 0 /\ \A i \in 1..Len(s) : s[i] \in DigitChars

\* int("...") of a digit string
RECURSIVE ParseInt(_)
ParseInt(s) ==
    IF Len(s) = 0 THEN 0
    ELSE ParseInt(SubSeq(s, 1, Len(s) - 1)) * 10 + DigitValue(s[Len(s)])

\* str(n) / f"{n}" of a natural number
RECURSIVE DecStr(_)
DecStr(n) ==
    IF n < 10 THEN <<DigitChar(n)>>
    ELSE DecStr(n \div 10) \o <<DigitChar(n % 10)>>

\* sub in s
Contains(s, sub) ==
    \E i \in 1..(Len(s) - Len(sub) + 1) : SubSeq(s, i, i + Len(sub) - 1) = sub

EndsWith(s, suf) ==
    Len(s) >= Len(suf) /\ SubSeq(s, Len(s) - Len(suf) + 1, Len(s)) = suf

\* where re.search(r'_<letter>(\d+)$', s) matches: at most one position
LevelSuffixAt(s, letter) ==
    {k \in 1..Len(s) : /\ k + 2 <= Len(s)
                       /\ s[k] = "_"
                       /\ s[k + 1] = letter
                       /\ IsDigits(SubSeq(s, k + 2, Len(s)))}

\* match.group(1) of that search
LevelDigits(s, letter) ==
    LET k == CHOOSE j \in LevelSuffixAt(s, letter) : TRUE
    IN  SubSeq(s, k + 2, Len(s))

PermitPrefix == <<"P","E","R","M","I","T","_">>

\* Python's None where a text is expected
None == <<"<None>">>

----------------------------------------------------------------------------
(* oracle/permit_manager.py                                                 *)

TYPE_OFFICIAL == "official"
TYPE_WOTX2 == "wotx2"

\* PERMIT_ID_PATTERN.match: ^PERMIT_[A-Z0-9_]+(_X\d+|_V\d+)$
is_valid_permit_id(permit_id) ==
    \E letter \in {"X", "V"} :
        \E k \in LevelSuffixAt(permit_id, letter) :
            /\ k >= Len(PermitPrefix) + 2
            /\ SubSeq(permit_id, 1, Len(PermitPrefix)) = PermitPrefix
            /\ \A i \in (Len(PermitPrefix) + 1)..(k - 1) : permit_id[i] \in NameChars

extract_level(permit_id) ==
    IF LevelSuffixAt(permit_id, "X") # {} THEN ParseInt(LevelDigits(permit_id, "X"))
    ELSE IF LevelSuffixAt(permit_id, "V") # {} THEN ParseInt(LevelDigits(permit_id, "V"))
    ELSE 1

\* re.sub(r'_(X|V)\d+$', '', permit_id)
extract_base_name(permit_id) ==
    LET ks == LevelSuffixAt(permit_id, "X") \cup LevelSuffixAt(permit_id, "V")
    IN  IF ks = {} THEN permit_id
        ELSE SubSeq(permit_id, 1, (CHOOSE k \in ks : TRUE) - 1)

get_next_level_id(permit_id) ==
    extract_base_name(permit_id) \o <<"_", "X">> \o DecStr(extract_level(permit_id) + 1)

\* a parent id that counts down from level 2 only: level 1 gets a parent _X0
get_parent_id_from_zero(permit_id) ==
    IF extract_level(permit_id) < 1 THEN None
    ELSE extract_base_name(permit_id) \o <<"_", "X">> \o DecStr(extract_level(permit_id) - 1)

get_parent_id(permit_id) ==
    IF extract_level(permit_id) <= 1 THEN None
    ELSE extract_base_name(permit_id) \o <<"_", "X">> \o DecStr(extract_level(permit_id) - 1)

get_permit_type(permit_id) ==
    IF Contains(permit_id, <<"_", "V">>) THEN TYPE_OFFICIAL ELSE TYPE_WOTX2

get_required_attestations(permit_id) ==
    IF get_permit_type(permit_id) = TYPE_OFFICIAL THEN 2 ELSE 1

----------------------------------------------------------------------------
(* oracle/oracle_service.py: the pure helpers                               *)

_extract_permit_level(permit_id) ==
    IF LevelSuffixAt(permit_id, "X") # {} THEN ParseInt(LevelDigits(permit_id, "X"))
    ELSE IF LevelSuffixAt(permit_id, "V") # {} THEN ParseInt(LevelDigits(permit_id, "V"))
    ELSE 1

\* re.sub(rf'_X{level}$', f'_X{level-1}', permit_id)
_get_parent_permit(permit_id) ==
    LET level == _extract_permit_level(permit_id)
        old   == <<"_", "X">> \o DecStr(level)
    IN  IF level <= 1 THEN permit_id
        ELSE IF EndsWith(permit_id, old)
             THEN SubSeq(permit_id, 1, Len(permit_id) - Len(old))
                      \o <<"_", "X">> \o DecStr(level - 1)
             ELSE permit_id

_get_required_threshold(permit_id) ==
    IF Contains(permit_id, <<"_", "V">>) THEN 2 ELSE 1

----------------------------------------------------------------------------
(* Bounds of the model                                                      *)

MaxAtt == 3        \* attestation events the relay comes to hold
MaxSent == 2       \* frames the daemon writes to its websocket
MaxTime == 1       \* seconds the clock advances
MaxPreCreds == 1   \* credentials the relay holds before the run

----------------------------------------------------------------------------
(* Events and the relay                                                     *)

KIND_PERMIT_DEF == 30500
KIND_REQUEST == 30501
KIND_ATTESTATION == 30502
KIND_CREDENTIAL == 30503

CREDENTIAL_VALIDITY_DAYS == 365
SECONDS_PER_DAY == 86400

OraclePubkey == "oracle"
Requester == "u1"
Users == {"u1", "u2", "u3", "u4"}

\* An event with no tag set; kind -1 is json's null where an event is expected.
\* `attestor` lists the attestor tags, `required` is content.required_attestations
\* of a permit definition (0: the content gives none).  The id of an event the
\* model never looks up by id is left empty.
NoEvent ==
    [kind |-> -1, id |-> <<>>, pubkey |-> "", created_at |-> 0,
     d |-> <<>>, e |-> <<>>, a |-> <<>>, p |-> "", permit_id |-> <<>>,
     expires |-> 0, attestations |-> 0, attestor |-> <<>>, required |-> 0]

RequestEventId == <<"r1">>
RequestD == <<"d1">>

RequestEvent(permit) ==
    [NoEvent EXCEPT !.kind = KIND_REQUEST, !.id = RequestEventId,
                    !.pubkey = Requester, !.d = RequestD, !.permit_id = permit]

DefinitionEvent(permit, n) ==
    [NoEvent EXCEPT !.kind = KIND_PERMIT_DEF, !.pubkey = "admin",
                    !.d = permit, !.required = n]

\* an attestation names the request in its `e` tag or in its `a` tag
AttestationEvent(author, ref) ==
    [NoEvent EXCEPT !.kind = KIND_ATTESTATION, !.pubkey = author,
                    !.e = ref.e, !.a = ref.a]

ById == [e |-> RequestEventId, a |-> <<>>]
ByD == [e |-> RequestD, a |-> <<>>]

\* the attestations users publish: each names the request in its `e` tag, by the
\* request's event id or by its `d`
AttestationPool == {AttestationEvent(u, ref) : u \in Users, ref \in {ById, ByD}}

\* a credential the Oracle issued before the run, for some other request
PriorCredential(holder, permit) ==
    [NoEvent EXCEPT !.kind = KIND_CREDENTIAL, !.pubkey = OraclePubkey,
                    !.d = <<"vc_", holder, "_">> \o permit \o <<"_", "old">>,
                    !.e = <<"r0", holder>> \o permit, !.p = holder, !.permit_id = permit,
                    !.expires = CREDENTIAL_VALIDITY_DAYS * SECONDS_PER_DAY,
                    !.attestations = 1]

Id(tail) == PermitPrefix \o tail

\* permit ids a request may carry: community and official, levels 1 and 2, a
\* community name that begins with V, no id, a malformed id
RequestPermitIds ==
    {Id(<<"A","_","X","1">>), Id(<<"A","_","X","2">>),
     Id(<<"A","_","V","1">>), Id(<<"A","_","V","2">>),
     Id(<<"V","_","X","1">>), <<>>, <<"f","o","o">>}

PriorPermitIds == {Id(<<"A","_","X","1">>), Id(<<"A","_","V","2">>)}

PriorHolders == {"u2"}

\* the credentials the relay holds before the run; they matter to requests of
\* level 2 only, and only those runs start with some
PriorCredentialSets(permit) ==
    IF permit \notin {Id(<<"A","_","X","2">>), Id(<<"A","_","V","2">>)} THEN {{}}
    ELSE {S \in SUBSET {PriorCredential(h, q) : h \in PriorHolders, q \in PriorPermitIds} :
            Cardinality(S) <= MaxPreCreds}

\* the kind-30500 definition of an official permit, if the relay holds one
DefinitionSets(permit) ==
    IF LevelSuffixAt(permit, "V") = {} THEN {{}}
    ELSE {{}} \cup {{DefinitionEvent(permit, n)} : n \in {3}}

\* kinds 30000..39999 are replaceable per (author, kind, d)
Replaces(new, old) ==
    /\ old.kind = new.kind
    /\ old.pubkey = new.pubkey
    /\ old.d = new.d

\* the relay takes an event: it keeps the newest per (author, kind, d); on equal
\* created_at the event ids decide, which the model leaves open (keepOld)
Stored(evs, new, keepOld) ==
    LET same == {o \in evs : Replaces(new, o)}
    IN  IF \E o \in same : o.created_at > new.created_at \/
                            (o.created_at = new.created_at /\ keepOld)
        THEN evs
        ELSE (evs \ same) \cup {new}

----------------------------------------------------------------------------
(* nostr_client.py: query_events as the Oracle uses it.  When the relay     *)
(* cannot be reached the call returns [] (lines 60-62 and 94-96).           *)

query_events(up, matching) == IF up THEN matching ELSE {}

----------------------------------------------------------------------------
(* oracle/oracle_service.py: process_attestation and what it calls          *)

_check_existing_credential(evs, up, request_id) ==
    query_events(up,
        {v \in evs : /\ v.kind = KIND_CREDENTIAL
                     /\ v.pubkey = OraclePubkey
                     /\ v.e = request_id})

\* by event id first (any kind), else kind 30501 by `d`; the caller takes events[0]
_get_request_event(evs, up, request_id) ==
    LET byId == query_events(up, {v \in evs : v.id = request_id})
        byD  == query_events(up, {v \in evs : v.kind = KIND_REQUEST /\ v.d = request_id})
    IN  IF byId # {} THEN byId ELSE byD

_verify_attestor_qualification(evs, up, attestor_pubkey, permit_id) ==
    IF _extract_permit_level(permit_id) <= 1 THEN TRUE
    ELSE query_events(up,
            {v \in evs : /\ v.kind = KIND_CREDENTIAL
                         /\ v.pubkey = OraclePubkey
                         /\ v.p = attestor_pubkey
                         /\ v.permit_id = _get_parent_permit(permit_id)}) # {}

_get_all_attestations(evs, up, request_id) ==
    query_events(up, {v \in evs : v.kind = KIND_ATTESTATION /\ v.e = request_id})

\* the kind-30503 event _issue_credential builds (lines 284-325)
vc_event(request_event, attestors, issued_at) ==
    [NoEvent EXCEPT
        !.kind = KIND_CREDENTIAL,
        !.pubkey = OraclePubkey,
        !.created_at = issued_at,
        !.d = <<"vc_", request_event.pubkey, "_">> \o request_event.permit_id
                  \o <<"_">> \o DecStr(issued_at),
        !.e = request_event.id,
        !.p = request_event.pubkey,
        !.permit_id = request_event.permit_id,
        !.expires = issued_at + CREDENTIAL_VALIDITY_DAYS * SECONDS_PER_DAY,
        !.attestations = Cardinality(attestors)]

\* _sign_event: the signed event; None when nostr_protocol cannot be imported
\* (the except ImportError branch logs and falls off the end of the function)
_sign_event(lib, event) == IF lib THEN event ELSE NoEvent

\* What one call does.  step: where it returned; returned: "True", "False" or
\* "raise"; wrote: whether websocket.send put an EVENT frame on the wire, and
\* payload: the event of that frame.
Outcome(where, ret, wrote, payload) ==
    [step |-> where, returned |-> ret, wrote |-> wrote, payload |-> payload]

\* The outcomes of _issue_credential: with the library present signing may
\* still raise (the except Exception branch re-raises); websocket.send may fail
_issue_credential(request_event, attestors, lib, t) ==
    {Outcome("issued", "True", TRUE,
             _sign_event(lib, vc_event(request_event, attestors, t))),
     Outcome("send_failed", "False", FALSE, NoEvent)}
        \cup (IF lib THEN {Outcome("sign_raised", "raise", FALSE, NoEvent)} ELSE {})

\* a handler without step 3: no attestation is taken for a self-attestation
SelfAttestationNever(attestor_pubkey, requester_pubkey) == FALSE

\* step 3 of process_attestation: the attester is the requester
SelfAttestation(attestor_pubkey, requester_pubkey) == attestor_pubkey = requester_pubkey

\* process_attestation from step 3 on, with `request_event` as events[0]
AfterRequest(evs, up, att, request_id, request_event, lib, t) ==
    LET permit_id  == request_event.permit_id
        unique     == {v.pubkey : v \in _get_all_attestations(evs, up, request_id)}
                          \cup {att.pubkey}
        threshold  == _get_required_threshold(permit_id)
    IN  IF SelfAttestation(att.pubkey, request_event.pubkey)
        THEN {Outcome("self", "False", FALSE, NoEvent)}
        ELSE IF ~_verify_attestor_qualification(evs, up, att.pubkey, permit_id)
        THEN {Outcome("unqualified", "False", FALSE, NoEvent)}
        ELSE IF Cardinality(unique) >= threshold
        THEN _issue_credential(request_event, unique, lib, t)
        ELSE {Outcome("below", "False", FALSE, NoEvent)}

\* the outcomes process_attestation can have for `att` on relay content `evs`
process_attestation(evs, up, att, lib, t) ==
    LET request_id == IF att.e # <<>> THEN att.e ELSE att.a
    IN  IF request_id = <<>>
        THEN {Outcome("no_ref", "False", FALSE, NoEvent)}
        ELSE IF _check_existing_credential(evs, up, request_id) # {}
        THEN {Outcome("existing", "False", FALSE, NoEvent)}
        ELSE IF _get_request_event(evs, up, request_id) = {}
        THEN {Outcome("no_request", "False", FALSE, NoEvent)}
        ELSE UNION {AfterRequest(evs, up, att, request_id, r, lib, t) :
                      r \in _get_request_event(evs, up, request_id)}

----------------------------------------------------------------------------
(* nostr_daemon.py: the message loop of listen_to_nostr                     *)

\* lines 113-116: an exception of the handler is logged and the loop goes on
AfterHandlerError == "listening"

Attestations(evs) == {v \in evs : v.kind = KIND_ATTESTATION}

Credentials(evs) == {v \in evs : v.kind = KIND_CREDENTIAL /\ v.pubkey = OraclePubkey}

\* lines 88-98.  A user publishes an attestation (or publishes a stored one
\* again); the relay stores it and delivers it to the subscription, and the
\* loop awaits process_attestation(event, websocket) before the next message.
Handle(att) ==
    /\ pc = "listening"
    /\ Len(sent) < MaxSent
    /\ att \in events \/ Cardinality(Attestations(events)) < MaxAtt
    /\ \E o \in process_attestation(events \cup {att}, TRUE, att, libAvailable, now)
                  \cup process_attestation(events \cup {att}, FALSE, att, libAvailable, now) :
          /\ events' = events \cup {att}
          /\ sent' = IF o.wrote THEN Append(sent, o.payload) ELSE sent
          /\ step' = o.step
          /\ pc' = IF o.returned = "raise" THEN AfterHandlerError ELSE "listening"
    /\ UNCHANGED <<taken, now, libAvailable, pid, applied, besideOracle>>

HandleAttestation == \E att \in AttestationPool : Handle(att)

\* what the latest call returned (lines 129-185, 334, 337, 380)
Returned ==
    CASE step = "none" -> "none"
      [] step = "issued" -> "True"
      [] step = "sign_raised" -> "raise"
      [] OTHER -> "False"

\* the call ended early on a failure of its surroundings: the relay could not be
\* reached (every query then returns [] and no request is found), websocket.send
\* failed, or signing raised
FaultSteps == {"no_request", "send_failed", "sign_raised"}

\* the same, each call being made once the relay has stored everything published
\* before, and running with nothing failing around it
HandleAttestationOrderly ==
    /\ taken = Len(sent)
    /\ HandleAttestation
    /\ step' \notin FaultSteps

\* an event of another kind the relay holds, with an event id of its own: a
\* contact list or a bon of user u3
KIND_CONTACTS == 3
KIND_BON == 30303

OtherEventId == <<"n1">>

OtherEvent(kind) ==
    [NoEvent EXCEPT !.kind = kind, !.id = OtherEventId, !.pubkey = "u3"]

\* attestations whose `e` tag is the id of that event
OtherAttestationPool ==
    {AttestationEvent(u, [e |-> OtherEventId, a |-> <<>>]) : u \in Users}

HandleOtherAttestation == \E att \in OtherAttestationPool : Handle(att)

----------------------------------------------------------------------------
(* The environment: the relay and the clock                                 *)

\* the relay takes the next EVENT frame of the daemon's socket; a frame whose
\* event is null is no event and is not stored
RelayStore ==
    /\ taken < Len(sent)
    /\ \E keepOld \in BOOLEAN :
         events' = IF sent[taken + 1] = NoEvent THEN events
                   ELSE Stored(events, sent[taken + 1], keepOld)
    /\ taken' = taken + 1
    /\ UNCHANGED <<sent, now, libAvailable, pc, step, pid, applied, besideOracle>>

Tick ==
    /\ now < MaxTime
    /\ now' = now + 1
    /\ UNCHANGED <<events, sent, taken, libAvailable, pc, step, pid, applied, besideOracle>>

----------------------------------------------------------------------------
(* The pure permit functions applied to one input                           *)

MaxTail == 5       \* characters after PERMIT_ in a generated permit id

TailChars == {"A", "V", "X", "_", "0", "1", "2"}

PermitInputs ==
    {Id(t) : t \in UNION {[1..n -> TailChars] : n \in 0..MaxTail}}
        \cup {<<>>, <<"f","o","o">>, <<"A","_","X","1">>}

NotApplied ==
    [done |-> FALSE, valid |-> FALSE, level |-> 0, base |-> <<>>, type |-> "",
     required |-> 0, threshold |-> 0, parent |-> <<>>, next |-> <<>>,
     oracle_parent |-> <<>>, next_of_parent |-> <<>>]

ApplyPermit ==
    /\ ~applied.done
    /\ applied' = [done |-> TRUE,
                   valid |-> is_valid_permit_id(pid),
                   level |-> extract_level(pid),
                   base |-> extract_base_name(pid),
                   type |-> get_permit_type(pid),
                   required |-> get_required_attestations(pid),
                   threshold |-> _get_required_threshold(pid),
                   parent |-> get_parent_id(pid),
                   next |-> get_next_level_id(pid),
                   oracle_parent |-> _get_parent_permit(pid),
                   next_of_parent |-> IF get_parent_id(pid) = None THEN None
                                      ELSE get_next_level_id(get_parent_id(pid))]
    /\ UNCHANGED <<oracleVars, pid, besidePermit>>

----------------------------------------------------------------------------
(* oracle/credential_generator.py: the dates of a credential, and the same  *)
(* for the event the Oracle service builds itself                           *)

VALIDITY_SKILL == 365
VALIDITY_LICENSE == 1825
VALIDITY_AUTHORITY == 3650

\* _get_validity_for_permit (lines 217-225)
_get_validity_for_permit(permit_id) ==
    IF Contains(permit_id, <<"L","I","C","E","N","S","E">>)
          \/ Contains(permit_id, <<"D","R","I","V","E","R">>)
    THEN VALIDITY_LICENSE
    ELSE IF Contains(permit_id, <<"A","U","T","H","O","R","I","T","Y">>)
               \/ Contains(permit_id, <<"A","D","M","I","N">>)
    THEN VALIDITY_AUTHORITY
    ELSE VALIDITY_SKILL

\* the argument validity_days: None, or an int
NoValidity == [given |-> FALSE, days |-> 0]
Validity(n) == [given |-> TRUE, days |-> n]

\* generate, lines 92-99: issued_at and expires_at of the credential
generate(permit_id, validity_days, t) ==
    LET days == IF ~validity_days.given THEN _get_validity_for_permit(permit_id)
                ELSE validity_days.days
    IN  [issued_at |-> t, expires_at |-> t + days * SECONDS_PER_DAY]

\* permit ids of the three validity classes, one of two classes at once, one in
\* lower case, and the empty id
GeneratePermitIds ==
    {Id(<<"A","_","X","1">>),
     Id(<<"L","I","C","E","N","S","E","_","V","1">>),
     Id(<<"D","R","I","V","E","R","_","X","1">>),
     Id(<<"A","U","T","H","O","R","I","T","Y","_","V","1">>),
     Id(<<"A","D","M","I","N","_","X","2">>),
     Id(<<"A","D","M","I","N","_","D","R","I","V","E","R","_","X","1">>),
     <<"d","r","i","v","e","r">>,
     <<>>}

\* values a caller passes as validity_days
ValidityInputs == {NoValidity} \cup {Validity(n) : n \in {-1, 0, 1, 30, VALIDITY_SKILL}}

NotGenerated ==
    [by |-> "none", permit_id |-> <<>>, validity_days |-> NoValidity,
     issued_at |-> 0, expires_at |-> 0]

\* a caller runs CredentialGenerator.generate
Generate ==
    /\ gen.by = "input"
    /\ LET g == generate(gen.permit_id, gen.validity_days, now)
       IN  gen' = [gen EXCEPT !.by = "generate", !.issued_at = g.issued_at,
                              !.expires_at = g.expires_at]
    /\ UNCHANGED <<oracleVars, besideGen>>

\* the Oracle service issues for a request on the same permit: _issue_credential
\* builds its event itself and takes no validity argument
OracleIssue ==
    /\ gen.by = "input"
    /\ ~gen.validity_days.given
    /\ LET e == vc_event(RequestEvent(gen.permit_id), {"u2"}, now)
       IN  gen' = [gen EXCEPT !.by = "oracle", !.issued_at = e.created_at,
                              !.expires_at = e.expires]
    /\ UNCHANGED <<oracleVars, besideGen>>

----------------------------------------------------------------------------
(* nostr_daemon.py: listen_to_nostr's reconnect loop, main and the end of   *)
(* the process                                                              *)

max_retries == 10
retry_delay == 5

\* ORACLE_NSEC_HEX: not set, set to text that is no hexadecimal, set to a key
Keys == {"missing", "invalid", "valid"}

\* lines 146-148 and 61-69: the process starts, main calls listen_to_nostr.
\* Without a key the function logs and returns; bytes.fromhex of a key that is
\* no hexadecimal raises in OracleService.__init__, outside any try, and the
\* interpreter ends the process with status 1.
Start ==
    /\ dpc = "start"
    /\ CASE key = "missing" -> dpc' = "returned" /\ exit_code' = exit_code
         [] key = "invalid" -> dpc' = "exited" /\ exit_code' = 1
         [] OTHER -> dpc' = "connecting" /\ exit_code' = exit_code
    /\ retry_count' = 0
    /\ UNCHANGED <<key, delay, fails, relayUp, besideDaemon>>

\* a handler that forgets line 76
ConnectOkNoReset ==
    /\ dpc = "connecting"
    /\ relayUp
    /\ dpc' = "open"
    /\ fails' = 0
    /\ UNCHANGED <<key, retry_count, delay, relayUp, exit_code, besideDaemon>>

\* lines 75-86: websockets.connect succeeds, the counter is reset and the
\* subscription is sent
ConnectOk ==
    /\ dpc = "connecting"
    /\ relayUp
    /\ retry_count' = 0
    /\ dpc' = "open"
    /\ fails' = 0
    /\ UNCHANGED <<key, delay, relayUp, exit_code, besideDaemon>>

\* lines 118-131, each except clause alike: count, then sleep
Failed ==
    /\ retry_count' = retry_count + 1
    /\ delay' = retry_delay * retry_count'
    /\ dpc' = "sleeping"
    /\ fails' = fails + 1
    /\ UNCHANGED <<key, relayUp, exit_code, besideDaemon>>

\* lines 123-131: websockets.connect raises (connection refused, or anything
\* else while connecting)
ConnectFail == dpc = "connecting" /\ Failed

\* lines 118-121: the open connection breaks, `async for` raises
\* ConnectionClosed
ConnectionBroken == dpc = "open" /\ Failed

\* line 88: the relay closes the connection normally, `async for` ends, and
\* the while loop goes round without sleeping
ConnectionEnds ==
    /\ dpc = "open"
    /\ dpc' = "connecting"
    /\ UNCHANGED <<key, retry_count, delay, fails, relayUp, exit_code, besideDaemon>>

\* lines 71 and 133: the sleep is over; the loop goes round while
\* retry_count < max_retries, else listen_to_nostr logs and returns
Wake ==
    /\ dpc = "sleeping"
    /\ dpc' = IF retry_count < max_retries THEN "connecting" ELSE "returned"
    /\ UNCHANGED <<key, retry_count, delay, fails, relayUp, exit_code, besideDaemon>>

\* lines 143-148: listen_to_nostr returned, so do main and asyncio.run, and the
\* script reaches its end: the interpreter exits with status 0
ProcessEnds ==
    /\ dpc = "returned"
    /\ dpc' = "exited"
    /\ exit_code' = 0
    /\ UNCHANGED <<key, retry_count, delay, fails, relayUp, besideDaemon>>

\* lines 149-151: SIGINT while asyncio.run is under way
KeyboardInterrupt ==
    /\ dpc \in {"connecting", "open", "sleeping"}
    /\ dpc' = "interrupted"
    /\ exit_code' = 0
    /\ UNCHANGED <<key, retry_count, delay, fails, relayUp, besideDaemon>>

\* the relay goes down or comes up
RelayChanges ==
    /\ dpc \in {"connecting", "open", "sleeping"}
    /\ relayUp' = ~relayUp
    /\ UNCHANGED <<key, dpc, retry_count, delay, fails, exit_code, besideDaemon>>

\* the steps the daemon takes by itself once it can
DaemonStep == Start \/ ConnectOk \/ ConnectFail \/ Wake \/ ProcessEnds

----------------------------------------------------------------------------
(* nostr_client.py: NostrClient.query_events, frame by frame                *)

MaxFrames == 3     \* frames the socket delivers during one query

\* the subscription id of the query under way, and one of another subscription
\* on the same socket
OwnSub == "troczen_1"
OtherSub == "troczen_0"

QueryEvents == {"e1", "e2"}

\* the frames a relay sends: ["EVENT", sub, event], ["EOSE", sub],
\* ["CLOSED", sub, msg], ["NOTICE", msg], ["AUTH", challenge], ["OK", id, ...]
Frames ==
    [type : {"EVENT"}, sub : {OwnSub, OtherSub}, event : QueryEvents]
        \cup [type : {"EOSE", "CLOSED"}, sub : {OwnSub, OtherSub}, event : {""}]
        \cup [type : {"NOTICE", "AUTH", "OK"}, sub : {""}, event : {""}]

\* pc: where the call stands; events: its local list; received: the frames the
\* socket delivered to it, in order; broke: the connection broke under it;
\* result, raised: what the caller gets
NoQuery ==
    [pc |-> "idle", events |-> <<>>, received |-> <<>>, broke |-> FALSE,
     result |-> <<>>, raised |-> FALSE]

\* lines 60-70: connect if need be, send the REQ.  A connect that fails returns
\* [] (line 62); a send that raises lands in the except clause (lines 94-96).
QueryStart ==
    /\ query.pc = "idle"
    /\ \/ query' = [query EXCEPT !.pc = "reading"]
       \/ query' = [query EXCEPT !.pc = "returned", !.result = <<>>, !.broke = TRUE]
    /\ UNCHANGED besideQuery

\* lines 74-86: one frame of the `async for`
QueryFrame(f) ==
    /\ query.pc = "reading"
    /\ Len(query.received) < MaxFrames
    /\ query' = [query EXCEPT
          !.received = Append(@, f),
          !.events = IF f.type = "EVENT" THEN Append(@, f.event) ELSE @,
          !.pc = IF f.type \in {"EOSE", "CLOSED"} THEN "closing" ELSE @]
    /\ UNCHANGED besideQuery

QueryReceive == \E f \in Frames : QueryFrame(f)

\* lines 88-92: send CLOSE and return the list; lines 94-96 when the send raises
QueryClose ==
    /\ query.pc = "closing"
    /\ \/ query' = [query EXCEPT !.pc = "returned", !.result = query.events]
       \/ query' = [query EXCEPT !.pc = "returned", !.result = <<>>, !.broke = TRUE]
    /\ UNCHANGED besideQuery

\* the connection breaks while the call reads: the `async for` raises
\* ConnectionClosed, or ends and the send of CLOSE raises it; lines 94-96 print
\* and return []
QueryBreak ==
    /\ query.pc = "reading"
    /\ query' = [query EXCEPT !.pc = "returned", !.result = <<>>, !.broke = TRUE]
    /\ UNCHANGED besideQuery

----------------------------------------------------------------------------
(* nostr_client.py: NostrClient.query_events_paginated.  An event is a       *)
(* number: its created_at, plus MaxTs + 1 times a serial that tells events  *)
(* of one created_at apart.  A page is what one query_events call returns:  *)
(* whatever the relay chose to send for the filter, or, for a relay that    *)
(* holds `store`, the newest `limit` events of it up to `until`.            *)

MaxPageSize == 2   \* page_size, and the events of one page
MaxResults == 3    \* max_results
MaxTs == 2         \* created_at of an event
MaxSerial == 1     \* serial of a stored event

EventOf(serial, t) == serial * (MaxTs + 1) + t

\* e.get("created_at", 0)
created_at(e) == e % (MaxTs + 1)

\* None, or an int
NoCursor == [set |-> FALSE, ts |-> 0]
Cursor(t) == [set |-> TRUE, ts |-> t]

\* `if until_timestamp:` (line 132): None and 0 put no `until` in the filter
FilterUntil(until_timestamp) ==
    IF until_timestamp.set /\ until_timestamp.ts # 0 THEN until_timestamp
    ELSE NoCursor

Pages == UNION {[1..n -> 0..MaxTs] : n \in 0..MaxPageSize}

RECURSIVE MinOf(_)
\* min(e.get("created_at", 0) for e in events)
MinOf(evs) ==
    IF Len(evs) = 1 THEN created_at(evs[1])
    ELSE LET m == MinOf(Tail(evs))
         IN IF created_at(evs[1]) < m THEN created_at(evs[1]) ELSE m

Min2(a, b) == IF a < b THEN a ELSE b

\* all_events[:max_results]
Truncated(evs, n) == SubSeq(evs, 1, Min2(Len(evs), n))

\* pc: where the call stands; queries: the filters sent, as [limit, until];
\* last: the latest page
NoPage ==
    [pc |-> "idle", page_size |-> 1, max_results |-> 0, all_events |-> <<>>,
     until_timestamp |-> NoCursor, page_count |-> 0, last |-> <<>>,
     queries |-> <<>>, result |-> <<>>, store |-> {}]

\* lines 124-158: one pass of the loop with `received` the page the query returned (the local `events`)
PagePass(received) ==
    /\ page.pc = "loop"
    /\ Len(page.all_events) < page.max_results
    /\ LET limit == Min2(page.page_size, page.max_results - Len(page.all_events))
           filter == [limit |-> limit, until |-> FilterUntil(page.until_timestamp)]
           all == page.all_events \o received
       IN  page' = [page EXCEPT
              !.queries = Append(@, filter),
              !.page_count = @ + 1,
              !.last = received,
              !.all_events = all,
              !.until_timestamp = IF received = <<>> THEN @ ELSE Cursor(MinOf(received) - 1),
              !.pc = IF received = <<>> \/ Len(received) < page.page_size
                     THEN "returned" ELSE "loop",
              !.result = IF received = <<>> \/ Len(received) < page.page_size
                         THEN Truncated(all, page.max_results) ELSE @]
    /\ UNCHANGED besidePage

PageQuery == \E received \in Pages : PagePass(received)

\* the events a relay can hold
StoredEvents == {EventOf(serial, t) : serial \in 0..MaxSerial, t \in 0..MaxTs}

\* the events of S, the newest first
RECURSIVE NewestFirst(_)
NewestFirst(S) ==
    IF S = {} THEN <<>>
    ELSE LET e == CHOOSE x \in S : \A y \in S :
                     \/ created_at(x) > created_at(y)
                     \/ created_at(x) = created_at(y) /\ x >= y
         IN <<e>> \o NewestFirst(S \ {e})

\* the relay's answer to a filter: the newest `limit` events of the store with
\* created_at <= until
Answer(store, limit, until) ==
    Truncated(NewestFirst({e \in store : until.set => created_at(e) <= until.ts}),
              limit)

\* one pass of the loop against that relay
PageQueryStored ==
    PagePass(Answer(page.store,
                    Min2(page.page_size, page.max_results - Len(page.all_events)),
                    FilterUntil(page.until_timestamp)))

\* lines 124 and 162-163: the loop condition fails
PageLoopEnds ==
    /\ page.pc = "loop"
    /\ Len(page.all_events) >= page.max_results
    /\ page' = [page EXCEPT !.pc = "returned",
                            !.result = Truncated(page.all_events, page.max_results)]
    /\ UNCHANGED besidePage

----------------------------------------------------------------------------
(* The DU engine (dragon/du_engine.py): the social graph                    *)
(*                                                                          *)
(* A pubkey is a positive number.  The relay holds at most one contact list *)
(* (kind 3, a replaceable event) per author; a tag is a sequence of texts   *)
(* and pubkeys, <<"p", 2>> for ["p", <pubkey 2>].  The relay answers every  *)
(* query of this section; a query that fails is the subject of the relay    *)
(* client's section above.                                                  *)

MaxTags == 2       \* tags of one contact list
MaxFriends == 6    \* pubkeys the user of a DU calculation follows

Authors == 1..3

Unlisted == [listed |-> FALSE, tags |-> <<>>]
Listed(tags) == [listed |-> TRUE, tags |-> tags]

\* the p tags a contact list of the social-graph runs is made of
PTagPool == {<<"p", a>> : a \in Authors}

TagLists(n) == UNION {[1..k -> PTagPool] : k \in 0..n}

\* what an author can have on the relay: no contact list, or one
ContactLists == {Unlisted} \cup {Listed(tags) : tags \in TagLists(MaxTags)}

\* contact lists that begin with a tag of another kind
MarkedLists == {Listed(<<<<"e", 1>>>> \o tags) : tags \in TagLists(MaxTags - 1)}

\* what the relay can hold; the list of author 1 may be a marked one
ContactRelays ==
    {<<l1, l2, l3>> : l1 \in ContactLists \cup MarkedLists,
                      l2 \in ContactLists, l3 \in ContactLists}

\* a list of the members of a set of pubkeys; nothing in the engine depends on
\* the order in which Python iterates over a set
RECURSIVE ListOf(_)
ListOf(S) ==
    IF S = {} THEN <<>>
    ELSE LET m == CHOOSE x \in S : \A y \in S : x <= y
         IN <<m>> \o ListOf(S \ {m})

Members(list) == {list[i] : i \in 1..Len(list)}

\* the relay's answer to [{"kinds": [3], "authors": authors, "limit": limit}]
ContactListQuery(relay, authors, limit) ==
    LET having == ListOf({a \in authors \cap DOMAIN relay : relay[a].listed})
    IN [i \in 1..Min2(limit, Len(having)) |->
           [pubkey |-> having[i], tags |-> relay[having[i]].tags]]

\* the values of the p tags: len(tag) >= 2 and tag[0] == 'p'
PTags(tags) ==
    {tags[i][2] : i \in {j \in 1..Len(tags) :
                           Len(tags[j]) >= 2 /\ tags[j][1] = "p"}}

\* follows_by_author: the p tags of each author's event, a later event of the
\* same author replacing an earlier one
FollowsByAuthor(follow_events) ==
    LET idx == 1..Len(follow_events)
        last(a) == CHOOSE i \in idx :
                      /\ follow_events[i].pubkey = a
                      /\ \A j \in idx : j > i => follow_events[j].pubkey # a
    IN [a \in {follow_events[i].pubkey : i \in idx} |->
           PTags(follow_events[last(a)].tags)]

\* the same, a follow being taken for reciprocal as soon as it has a contact
\* list
_get_n1_list_any_list(relay, user_pubkey) ==
    LET own_events == ContactListQuery(relay, {user_pubkey}, 1)
    IN IF own_events = <<>> THEN [list |-> <<>>, queries |-> 1]
       ELSE LET follows == PTags(own_events[1].tags)
            IN IF follows = {} THEN [list |-> <<>>, queries |-> 1]
               ELSE LET follow_events ==
                            ContactListQuery(relay, follows, Cardinality(follows))
                        follows_by_author == FollowsByAuthor(follow_events)
                        Reciprocal(f) == f \in DOMAIN follows_by_author
                    IN [list |-> SelectSeq(ListOf(follows), Reciprocal),
                        queries |-> 2]

\* DUEngine._get_n1_list: the list it returns and the relay queries it made
_get_n1_list(relay, user_pubkey) ==
    LET own_events == ContactListQuery(relay, {user_pubkey}, 1)
    IN IF own_events = <<>> THEN [list |-> <<>>, queries |-> 1]
       ELSE LET follows == PTags(own_events[1].tags)
            IN IF follows = {} THEN [list |-> <<>>, queries |-> 1]
               ELSE LET follow_events ==
                            ContactListQuery(relay, follows, Cardinality(follows))
                        follows_by_author == FollowsByAuthor(follow_events)
                        Reciprocal(f) ==
                            /\ f \in DOMAIN follows_by_author
                            /\ user_pubkey \in follows_by_author[f]
                    IN [list |-> SelectSeq(ListOf(follows), Reciprocal),
                        queries |-> 2]

\* the same, the user and the N1 left in the result
_get_n2_list_all(relay, user_pubkey) ==
    LET first == _get_n1_list(relay, user_pubkey)
        n1 == first.list
    IN IF n1 = <<>> THEN [list |-> <<>>, queries |-> first.queries]
       ELSE LET n1_events == ContactListQuery(relay, Members(n1), Len(n1))
                n2_set == UNION {PTags(n1_events[i].tags) :
                                    i \in 1..Len(n1_events)}
            IN [list |-> ListOf(n2_set), queries |-> first.queries + 1]

\* DUEngine._get_n2_list: the list it returns and the relay queries it made,
\* those of its call of _get_n1_list included
_get_n2_list(relay, user_pubkey) ==
    LET first == _get_n1_list(relay, user_pubkey)
        n1 == first.list
    IN IF n1 = <<>> THEN [list |-> <<>>, queries |-> first.queries]
       ELSE LET n1_events == ContactListQuery(relay, Members(n1), Len(n1))
                n2_set == {p \in UNION {PTags(n1_events[i].tags) :
                                           i \in 1..Len(n1_events)} :
                              p # user_pubkey /\ p \notin Members(n1)}
            IN [list |-> ListOf(n2_set), queries |-> first.queries + 1]

NoResult ==
    [active |-> FALSE, du |-> -1, du_base |-> -1, du_skill |-> -1,
     du_monthly |-> -1, multiplier |-> -1, n1 |-> -1, n2 |-> -1,
     reason |-> "absent"]

\* no call made yet, and no relay
NoDU ==
    [relay |-> <<>>, call |-> "none", user |-> 0, list |-> <<>>,
     queries |-> 0, n1_count |-> -1, result |-> NoResult]

\* await du_engine._get_n1_list(user)
GetN1List ==
    /\ du.call = "none"
    /\ \E user \in DOMAIN du.relay :
          LET r == _get_n1_list(du.relay, user)
          IN du' = [du EXCEPT !.call = "_get_n1_list", !.user = user,
                              !.list = r.list, !.queries = r.queries]
    /\ UNCHANGED besideDU

\* await du_engine._get_n2_list(user)
GetN2List ==
    /\ du.call = "none"
    /\ \E user \in DOMAIN du.relay :
          LET r == _get_n2_list(du.relay, user)
          IN du' = [du EXCEPT !.call = "_get_n2_list", !.user = user,
                              !.list = r.list, !.queries = r.queries]
    /\ UNCHANGED besideDU

----------------------------------------------------------------------------
(* The DU engine: the daily amount                                          *)
(*                                                                          *)
(* Amounts of Zen that the engine rounds to two decimals are counted in     *)
(* hundredths; c2 is given in hundredths, alpha and the skill score in      *)
(* tenths, the masses and the previous DU in whole Zen.  The masses, the    *)
(* parameters and the skill score, which the engine reads from the relay    *)
(* and from the parameter engine, are inputs of the call.                   *)

DU_INITIAL == 10
MIN_N1_FOR_DU == 5

\* the user (pubkey 1) follows the first `followed` of MaxFriends pubkeys, the
\* first `following` of which follow the user; each of them follows `others`
StarRelay(followed, following, others) ==
    [a \in 1..(MaxFriends + 1) |->
        IF a = 1 THEN Listed([i \in 1..followed |-> <<"p", i + 1>>])
        ELSE IF a - 1 <= following THEN Listed(<<<<"p", 1>>>> \o others)
        ELSE Listed(others)]

\* pubkeys without a contact list that the friends can follow: none, one, four
Outsiders ==
    {<<>>,
     <<<<"p", MaxFriends + 2>>>>,
     [i \in 1..4 |-> <<"p", MaxFriends + 1 + i>>]}

StarRelays ==
    {StarRelay(followed, following, others) :
        followed \in 0..MaxFriends, following \in 0..MaxFriends,
        others \in Outsiders}

Masses == {0, 50}
C2s == {0, 7}
Alphas == {0, 3}
Skills == {0, 15}
SquareCounts == {0, 1, 4}

NoPrevDU == [given |-> FALSE, du |-> 0]
PrevDU(d) == [given |-> TRUE, du |-> d]
PrevDUs == {NoPrevDU, PrevDU(0), PrevDU(12)}

\* math.sqrt, of a perfect square
Sqrt(n) == CHOOSE r \in 0..n : r * r = n

Max2(a, b) == IF a > b THEN a ELSE b

\* round(num / den, 2) in hundredths, to the nearest
Round2(num, den) ==
    100 * (num \div den) + (200 * (num % den) + den) \div (2 * den)

\* the formula of the two calculations: du_base = prev_du + du_increment as
\* the fraction base_num / base_den, the multiplier as mult_num / 100
Amounts(n1_count, n2_count, m_n1, m_n2, c2, alpha, s_i, prev_du) ==
    LET sq_n2 == Sqrt(Max2(n2_count, 1))
        base_den == 100 * sq_n2 * (n1_count + sq_n2)
        base_num == prev_du * base_den + c2 * (m_n1 * sq_n2 + m_n2)
        mult_num == 100 + alpha * s_i
    IN [du |-> Round2(base_num * mult_num, base_den * 100),
        du_base |-> Round2(base_num, base_den),
        du_skill |-> Round2(base_num * (mult_num - 100), base_den * 100),
        du_monthly |-> Round2(base_num * mult_num * 30, base_den * 100),
        multiplier |-> mult_num]

\* the same without the minimum of reciprocal links
calculate_du_ungated(relay, user_pubkey, m_n1, m_n2, c2, alpha, s_i) ==
    LET n1_count == Len(_get_n1_list(relay, user_pubkey).list)
        n2_count == Len(_get_n2_list(relay, user_pubkey).list)
        a == Amounts(n1_count, n2_count, m_n1, m_n2, c2, alpha, s_i, DU_INITIAL)
    IN [active |-> TRUE, du |-> a.du, du_base |-> a.du_base,
        du_skill |-> a.du_skill, du_monthly |-> a.du_monthly,
        multiplier |-> a.multiplier, n1 |-> n1_count, n2 |-> n2_count,
        reason |-> "absent"]

\* DUEngine.calculate_du: the dictionary it returns; a key it leaves out is -1
\* or "absent"
calculate_du(relay, user_pubkey, m_n1, m_n2, c2, alpha, s_i) ==
    LET n1_count == Len(_get_n1_list(relay, user_pubkey).list)
        n2_count == Len(_get_n2_list(relay, user_pubkey).list)
        a == Amounts(n1_count, n2_count, m_n1, m_n2, c2, alpha, s_i, DU_INITIAL)
    IN IF n1_count < MIN_N1_FOR_DU
       THEN [active |-> FALSE, du |-> 0, du_base |-> 0, du_skill |-> 0,
             du_monthly |-> -1, multiplier |-> -1, n1 |-> n1_count,
             n2 |-> n2_count, reason |-> "N1 < 5"]
       ELSE [active |-> TRUE, du |-> a.du, du_base |-> a.du_base,
             du_skill |-> a.du_skill, du_monthly |-> a.du_monthly,
             multiplier |-> a.multiplier, n1 |-> n1_count, n2 |-> n2_count,
             reason |-> "absent"]

\* DUEngine.calculate_du_simple
calculate_du_simple(n1_count, n2_count, m_n1, m_n2, c2, alpha, s_i, prev_du) ==
    LET prev == IF prev_du.given THEN prev_du.du ELSE DU_INITIAL
        a == Amounts(n1_count, n2_count, m_n1, m_n2, c2, alpha, s_i, prev)
    IN IF n1_count < MIN_N1_FOR_DU
       THEN [active |-> FALSE, du |-> 0, du_base |-> -1, du_skill |-> -1,
             du_monthly |-> -1, multiplier |-> -1, n1 |-> -1, n2 |-> -1,
             reason |-> "N1 < 5"]
       ELSE [active |-> TRUE, du |-> a.du, du_base |-> a.du_base,
             du_skill |-> a.du_skill, du_monthly |-> a.du_monthly,
             multiplier |-> a.multiplier, n1 |-> -1, n2 |-> -1,
             reason |-> "absent"]

\* await du_engine.calculate_du(user, market)
CalculateDU ==
    /\ du.call = "none"
    /\ \E user \in DOMAIN du.relay, m_n1 \in Masses, m_n2 \in Masses,
          c2 \in C2s, alpha \in Alphas, s_i \in Skills :
          du' = [du EXCEPT !.call = "calculate_du", !.user = user,
                           !.result = calculate_du(du.relay, user, m_n1, m_n2,
                                                   c2, alpha, s_i)]
    /\ UNCHANGED besideDU

\* await du_engine.calculate_du_simple(n1_count, n2_count, ...)
CalculateDUSimple ==
    /\ du.call = "none"
    /\ \E n1_count \in 0..(MaxFriends + 1), n2_count \in SquareCounts,
          m_n1 \in Masses, m_n2 \in Masses, c2 \in C2s, alpha \in Alphas,
          s_i \in Skills, prev_du \in PrevDUs :
          du' = [du EXCEPT !.call = "calculate_du_simple",
                           !.n1_count = n1_count,
                           !.result = calculate_du_simple(n1_count, n2_count,
                                          m_n1, m_n2, c2, alpha, s_i, prev_du)]
    /\ UNCHANGED besideDU

----------------------------------------------------------------------------
(* The parameter engine (dragon/params_engine.py).  c2 is counted in        *)
(* ten-thousandths (round(c2, 4)), alpha in thousandths (round(alpha, 3)),  *)
(* ages and TTLs in days.  A closed circuit is its age_days and its         *)
(* skill_cert: 0 for none, else the level the certificate ends on.  The     *)
(* relay is the same for all the queries of one get_all_params call.        *)

C2_MIN == 200
C2_MAX == 2500
C2_DEFAULT == 700
ALPHA_MIN == 0
ALPHA_MAX == 1000
ALPHA_DEFAULT == 300
TTL_MIN == 7
TTL_MAX == 365
TTL_DEFAULT == 28

MaxLoops == 5      \* closed circuits of the user in the window
MaxAge == 6        \* age_days of a circuit

NoDragon == [part |-> "none"]

\* the circuits the relay can hold for the user: age_days 0, 1, 2 or
\* MaxAge; no skill_cert, or one of level 1 or 2
LoopPool ==
    [i \in 1..12 |->
        [age_days |-> <<0, 1, 2, MaxAge>>[((i - 1) % 4) + 1],
         skill_cert |-> (i - 1) \div 4]]

\* the lists of n numbers of 1..hi in ascending order
RECURSIVE Ascending(_, _)
Ascending(n, hi) ==
    IF n = 0 THEN {<<>>}
    ELSE UNION {{Append(s, k) : k \in (IF s = <<>> THEN 1 ELSE s[Len(s)])..hi} :
                   s \in Ascending(n - 1, hi)}

\* lists of at most n circuits, one per collection of them
LoopLists(n) ==
    {[i \in 1..Len(ix) |-> LoopPool[ix[i]]] :
        ix \in UNION {Ascending(k, Len(LoopPool)) : k \in 0..n}}

\* the TTLs of the bons the user emitted, the bons expired without a circuit,
\* the circuits of the month before
TtlLists == {<<>>, <<0>>, <<7, 30>>}
ExpiredCounts == {0, 1}
PrevLoopCounts == {0, 1}

RECURSIVE Inserted(_, _)
Inserted(sorted, v) ==
    IF sorted = <<>> THEN <<v>>
    ELSE IF v <= sorted[1] THEN <<v>> \o sorted
    ELSE <<sorted[1]>> \o Inserted(Tail(sorted), v)

RECURSIVE Sorted(_)
Sorted(values) ==
    IF values = <<>> THEN <<>> ELSE Inserted(Sorted(Tail(values)), values[1])

\* twice ParamsEngine._median(values)
Median2(values) ==
    IF values = <<>> THEN 0
    ELSE LET sorted_vals == Sorted(values)
             n == Len(sorted_vals)
             mid == n \div 2
         IN IF n % 2 = 0 THEN sorted_vals[mid] + sorted_vals[mid + 1]
            ELSE 2 * sorted_vals[mid + 1]

RECURSIVE Sum(_)
Sum(values) == IF values = <<>> THEN 0 ELSE values[1] + Sum(Tail(values))

\* the nearest integer to num / den, for num >= 0 and den > 0
Nearest(num, den) == (2 * num + den) \div (2 * den)

\* Python's round(num / den) to an integer: halves go to the even one
RoundHalfEven(num, den) ==
    LET q == num \div den
        r == num % den
    IN IF 2 * r < den THEN q
       ELSE IF 2 * r > den THEN q + 1
       ELSE IF q % 2 = 0 THEN q ELSE q + 1

Clamp(lo, v, hi) == Max2(lo, Min2(v, hi))

\* [loop.get('age_days', 0) for loop in loops if loop.get('age_days')]
Ages(loops) ==
    LET truthy(l) == l.age_days # 0
        kept == SelectSeq(loops, truthy)
    IN [i \in 1..Len(kept) |-> kept[i].age_days]

\* ParamsEngine.calculate_c2 (the value of 'c2')
calculate_c2(loops, emitted_ttls, expired_count, prev_loops) ==
    LET ages == Ages(loops)
        median_return2 == IF ages # <<>> THEN Median2(ages) ELSE 0
        median_ttl2 == IF emitted_ttls # <<>> THEN Median2(emitted_ttls)
                       ELSE 2 * TTL_DEFAULT
        \* health_ratio = min(len(loops) / max(expired_count, 0.1), 2.0)
        raw_h == IF expired_count = 0 THEN <<10 * Len(loops), 1>>
                 ELSE <<Len(loops), expired_count>>
        health == IF raw_h[1] > 2 * raw_h[2] THEN <<2, 1>> ELSE raw_h
        \* n1_growth = min(max(0, (len(loops) - prev) / max(prev, 1)), 0.5)
        raw_g == <<Max2(0, Len(loops) - prev_loops), Max2(prev_loops, 1)>>
        growth == IF 2 * raw_g[1] > raw_g[2] THEN <<1, 2>> ELSE raw_g
        num == median_return2 * health[1] * (growth[2] + growth[1])
        den == median_ttl2 * health[2] * growth[2]
    IN IF median_return2 > 0 /\ median_ttl2 > 0
       THEN Clamp(C2_MIN, Nearest(10000 * num, den), C2_MAX)
       ELSE C2_DEFAULT

\* floor(a * 640000 / d) for 0 <= a <= d, by long division
Scaled(a, d) ==
    LET q == (a * 6400) \div d
        r == (a * 6400) % d
    IN q * 100 + (r * 100) \div d

\* 0.8 * numer / sqrt(d) in thousandths, to the nearest, for numer > 0
Alpha08(numer, d) ==
    LET v == Scaled(numer * numer, d)
        v4 == Scaled(numer * numer, d) * 4
                + (4 * (((numer * numer * 6400) % d) * 100 % d)) \div d
        k == CHOOSE j \in 0..800 : j * j <= v /\ v < (j + 1) * (j + 1)
    IN IF (2 * k + 1) * (2 * k + 1) <= v4 THEN k + 1 ELSE k

\* the same with the default taken whenever the ages do not vary
calculate_alpha_flat_default(loops) ==
    LET certified(l) == l.skill_cert # 0
        skill_loops == SelectSeq(loops, certified)
        n == Len(skill_loops)
        x == [i \in 1..n |-> n * skill_loops[i].skill_cert
                                - Sum([j \in 1..n |-> skill_loops[j].skill_cert])]
        y == [i \in 1..n |-> n * (0 - skill_loops[i].age_days)
                                - Sum([j \in 1..n |-> 0 - skill_loops[j].age_days])]
        numerator == Sum([i \in 1..n |-> x[i] * y[i]])
        sum_sq == Sum([i \in 1..n |-> x[i] * x[i]]) * Sum([i \in 1..n |-> y[i] * y[i]])
    IN IF n < 5 \/ \A i \in 1..n : y[i] = 0 THEN ALPHA_DEFAULT
       ELSE IF sum_sq = 0 \/ numerator <= 0 THEN ALPHA_MIN
       ELSE Clamp(ALPHA_MIN, Alpha08(numerator, sum_sq), ALPHA_MAX)

\* ParamsEngine.calculate_alpha (the value of 'alpha') with _pearson_correlation:
\* x and y are n times the deviations from the mean, so that the correlation
\* is numerator / sqrt(sum_sq)
calculate_alpha(loops) ==
    LET certified(l) == l.skill_cert # 0
        skill_loops == SelectSeq(loops, certified)
        n == Len(skill_loops)
        x == [i \in 1..n |-> n * skill_loops[i].skill_cert
                                - Sum([j \in 1..n |-> skill_loops[j].skill_cert])]
        y == [i \in 1..n |-> n * (0 - skill_loops[i].age_days)
                                - Sum([j \in 1..n |-> 0 - skill_loops[j].age_days])]
        numerator == Sum([i \in 1..n |-> x[i] * y[i]])
        sum_sq == Sum([i \in 1..n |-> x[i] * x[i]]) * Sum([i \in 1..n |-> y[i] * y[i]])
    IN IF n < 5 THEN ALPHA_DEFAULT
       ELSE IF sum_sq = 0 \/ numerator <= 0 THEN ALPHA_MIN
       ELSE Clamp(ALPHA_MIN, Alpha08(numerator, sum_sq), ALPHA_MAX)

\* ParamsEngine.calculate_ttl_optimal
calculate_ttl_optimal(loops) ==
    LET ages == Ages(loops)
        median_return2 == IF ages # <<>> THEN Median2(ages) ELSE 0
    IN IF median_return2 > 0
       THEN Clamp(TTL_MIN, RoundHalfEven(3 * median_return2, 4), TTL_MAX)
       ELSE TTL_DEFAULT

\* ParamsEngine.get_all_params
get_all_params(loops, emitted_ttls, expired_count, prev_loops) ==
    [c2 |-> calculate_c2(loops, emitted_ttls, expired_count, prev_loops),
     alpha |-> calculate_alpha(loops),
     ttl_optimal |-> calculate_ttl_optimal(loops)]

NoParams == [c2 |-> -1, alpha |-> -1, ttl_optimal |-> -1]

\* await params_engine.get_all_params(user, market)
GetAllParams ==
    /\ dragon.part = "params"
    /\ ~dragon.returned
    /\ dragon' = [dragon EXCEPT
          !.returned = TRUE,
          !.result = get_all_params(dragon.loops, dragon.emitted_ttls,
                                    dragon.expired_count, dragon.prev_loops)]
    /\ UNCHANGED besideDragon

----------------------------------------------------------------------------
(* The circuit indexer (dragon/circuit_indexer.py): the inter-market rates.  *)
(* A market is a number, ordered as its name is; 0 is the empty name, which  *)
(* is also what an absent market_id or dest_market_id reads as.  A rate is   *)
(* in thousandths, as round(rate, 3) leaves it.                              *)

MaxMarket == 2       \* the markets are 0..MaxMarket
MaxValue == 2        \* the value_zen of a circuit is -1..MaxValue
MaxCircuits == 2     \* circuits of the last 30 days

Markets == 0..MaxMarket
ZenValues == -1..MaxValue

\* the contents of the circuits the relay can return
CircuitPool ==
    [i \in 1..(Cardinality(Markets) * Cardinality(Markets) * Cardinality(ZenValues)) |->
        [market_id |-> (i - 1) % Cardinality(Markets),
         dest_market_id |-> ((i - 1) \div Cardinality(Markets)) % Cardinality(Markets),
         value_zen |-> ((i - 1) \div (Cardinality(Markets) * Cardinality(Markets))) - 1]]

\* the batches of at most n circuits, one per collection of them
CircuitLists(n) ==
    {[i \in 1..Len(ix) |-> CircuitPool[ix[i]]] :
        ix \in UNION {Ascending(k, Len(CircuitPool)) : k \in 0..n}}

\* if dest_market and dest_market != market_id
CrossesMarkets(c) == c.dest_market_id # 0 /\ c.dest_market_id # c.market_id

\* the keys of 'flows': tuple(sorted([market_id, dest_market]))
FlowKeys(circuits) ==
    {<<Min2(circuits[i].market_id, circuits[i].dest_market_id),
       Max2(circuits[i].market_id, circuits[i].dest_market_id)>> :
        i \in {j \in 1..Len(circuits) : CrossesMarkets(circuits[j])}}

\* the value that went from one market to another
RECURSIVE Flow(_, _, _)
Flow(circuits, from, to) ==
    IF circuits = <<>> THEN 0
    ELSE (IF circuits[1].market_id = from /\ circuits[1].dest_market_id = to
          THEN circuits[1].value_zen ELSE 0)
         + Flow(Tail(circuits), from, to)

\* CircuitIndexer.calculate_intermarket_rates: the entries of 'rates', as
\* the set of [from, to, rate]
calculate_intermarket_rates(circuits) ==
    UNION {LET m1 == k[1]
               m2 == k[2]
               counted == SelectSeq(circuits, CrossesMarkets)
               a_to_b == Flow(counted, m1, m2)
               b_to_a == Flow(counted, m2, m1)
               total == a_to_b + b_to_a
           IN IF total > 0
              THEN {[from |-> m1, to |-> m2,
                     rate |-> Nearest(1000 * a_to_b, total)],
                    [from |-> m2, to |-> m1,
                     rate |-> 1000 - Nearest(1000 * a_to_b, total)]}
              ELSE {} : k \in FlowKeys(circuits)}

CalculateIntermarketRates ==
    /\ dragon.part = "rates"
    /\ ~dragon.returned
    /\ dragon' = [dragon EXCEPT !.returned = TRUE,
                                !.result = calculate_intermarket_rates(dragon.circuits)]
    /\ UNCHANGED besideDragon


----------------------------------------------------------------------------
(* A batch of kind-30304 events as the relay returns it.  The content of an  *)
(* event is a text: json.loads either reads an object out of it or raises    *)
(* (an encrypted content, an empty text).  An exception that a function      *)
(* does not catch ends the function: it returns nothing.                     *)

MaxBatch == 3        \* events of one batch

NoContent ==
    [market_id |-> 0, dest_market_id |-> 0, value_zen |-> 0,
     age_days |-> 0, skill_cert |-> 0]

\* the events of the relay: one whose content is not JSON, three circuits
BatchEventPool ==
    <<[valid_json |-> FALSE, content |-> NoContent],
      [valid_json |-> TRUE,
       content |-> [market_id |-> 1, dest_market_id |-> 2, value_zen |-> 1,
                    age_days |-> 1, skill_cert |-> 0]],
      [valid_json |-> TRUE,
       content |-> [market_id |-> 2, dest_market_id |-> 1, value_zen |-> 2,
                    age_days |-> 2, skill_cert |-> 1]],
      [valid_json |-> TRUE,
       content |-> [market_id |-> 1, dest_market_id |-> 0, value_zen |-> 1,
                    age_days |-> 0, skill_cert |-> 0]]>>

Batches ==
    {[i \in 1..Len(ix) |-> BatchEventPool[ix[i]]] :
        ix \in UNION {[1..n -> 1..Len(BatchEventPool)] : n \in 0..MaxBatch}}

RaisedError == [raised |-> TRUE, value |-> <<>>]
ReturnedValue(v) == [raised |-> FALSE, value |-> v]

\* content = json.loads(event.get('content', '{}')), in a loop over the
\* events with no try around it: the first content that is not JSON raises
JsonLoadsAll(batch) ==
    IF \E i \in 1..Len(batch) : ~batch[i].valid_json THEN RaisedError
    ELSE ReturnedValue([i \in 1..Len(batch) |-> batch[i].content])

\* CircuitIndexer.get_circuits, from the events of its query on
get_circuits(batch) == JsonLoadsAll(batch)

\* CircuitIndexer.calculate_intermarket_rates, from the events of its query on
RatesOfBatch(batch) ==
    LET contents == JsonLoadsAll(batch)
    IN IF contents.raised THEN RaisedError
       ELSE ReturnedValue(calculate_intermarket_rates(contents.value))

\* ParamsEngine._get_loops_30d, from the events of its query on
_get_loops_30d(batch) ==
    LET contents == JsonLoadsAll(batch)
    IN IF contents.raised THEN RaisedError
       ELSE ReturnedValue([i \in 1..Len(contents.value) |->
                         [age_days |-> contents.value[i].age_days,
                          skill_cert |-> contents.value[i].skill_cert]])

BatchCall(call, outcome) ==
    /\ dragon.part = "batch"
    /\ dragon.call = "none"
    /\ dragon' = [dragon EXCEPT !.call = call, !.result = outcome]
    /\ UNCHANGED besideDragon

GetCircuits == BatchCall("get_circuits", get_circuits(dragon.batch))

IntermarketRates == BatchCall("calculate_intermarket_rates", RatesOfBatch(dragon.batch))

GetLoops30d == BatchCall("_get_loops_30d", _get_loops_30d(dragon.batch))


----------------------------------------------------------------------------
(* The `#market` values of the queries of one request.  A market name is a   *)
(* text; the request is served for a user whose N1 and N2 are large enough   *)
(* for each query of the request to be sent.                                 *)

MaxName == 2         \* characters of a market name that is not a tag

MarketPrefix == <<"m", "a", "r", "k", "e", "t", "_">>

AsciiUpper == <<"A","B","C","D","E","F","G","H","I","J","K","L","M",
                "N","O","P","Q","R","S","T","U","V","W","X","Y","Z">>
AsciiLower == <<"a","b","c","d","e","f","g","h","i","j","k","l","m",
                "n","o","p","q","r","s","t","u","v","w","x","y","z">>

\* unicodedata.normalize('NFKD', ...) without the combining characters
WithoutDiacritics(c) == IF c = "é" THEN "e" ELSE c

\* str.lower
Lower(c) ==
    IF c \in UpperChars
    THEN AsciiLower[CHOOSE i \in 1..Len(AsciiUpper) : AsciiUpper[i] = c]
    ELSE c

\* re.sub(r'[^a-z0-9]', '_', lower)
Sanitized(c) ==
    IF c \in {AsciiLower[i] : i \in 1..Len(AsciiLower)} \cup DigitChars
    THEN c ELSE "_"

\* re.sub(r'_+', '_', sanitized)
RECURSIVE Collapsed(_)
Collapsed(text) ==
    IF Len(text) < 2 THEN text
    ELSE IF text[1] = "_" /\ text[2] = "_" THEN Collapsed(Tail(text))
    ELSE <<text[1]>> \o Collapsed(Tail(text))

\* .strip('_')
RECURSIVE Stripped(_)
Stripped(text) ==
    IF text = <<>> THEN text
    ELSE IF text[1] = "_" THEN Stripped(Tail(text))
    ELSE IF text[Len(text)] = "_" THEN Stripped(SubSeq(text, 1, Len(text) - 1))
    ELSE text

Cleaned(market_id) ==
    Stripped(Collapsed([i \in 1..Len(market_id) |->
                           Sanitized(Lower(WithoutDiacritics(market_id[i])))]))

\* ParamsEngine._normalize_market_tag, CircuitIndexer._normalize_market_tag
_normalize_market_tag(market_id) == MarketPrefix \o Cleaned(market_id)

\* the market names of a caller: plain names, and the tags of plain names
\* (what DashboardBuilder._get_user_markets reads from the bons)
PlainNames == UNION {[1..n -> {"a", "B", " ", "é"}] : n \in 0..MaxName}
MarketNames == PlainNames \cup {_normalize_market_tag(m) : m \in PlainNames}

\* the queries with a `#market` filter that each operation sends, in order
ParamsPlan ==
    <<"_get_loops_30d", "_get_emitted_ttls_30d", "_get_expired_count_30d",
      "_get_loops_prev_month", "_get_loops_30d", "_get_loops_30d">>
Plans ==
    [calculate_du |-> <<"_calculate_active_mass", "_calculate_active_mass">>
                          \o ParamsPlan,
     get_all_params |-> ParamsPlan,
     get_active_bonds |-> <<"get_active_bonds">>,
     get_circuits |-> <<"get_circuits">>]

SendMarketQuery(senders, tag) ==
    /\ dragon.part = "market"
    /\ dragon.plan # <<>>
    /\ dragon.plan[1] \in senders
    /\ dragon' = [dragon EXCEPT !.plan = Tail(dragon.plan),
                                !.sent = Append(dragon.sent, tag)]
    /\ UNCHANGED besideDragon

\* DUEngine._calculate_active_mass: "#market": [market_id]
SendActiveMassQuery ==
    SendMarketQuery({"_calculate_active_mass"}, dragon.market_id)

\* the queries of the params engine: "#market": [market_tag]
SendParamsQuery ==
    SendMarketQuery({ParamsPlan[i] : i \in 1..Len(ParamsPlan)},
                    _normalize_market_tag(dragon.market_id))

\* the queries of the circuit indexer: "#market": [market_tag]
SendIndexerQuery ==
    SendMarketQuery({"get_active_bonds", "get_circuits"},
                    _normalize_market_tag(dragon.market_id))


----------------------------------------------------------------------------
(* DUEngine.calculate_du, one await at a time, on a relay whose contact      *)
(* lists are replaced by their authors while the call runs (kind 3 is a      *)
(* replaceable event).                                                       *)

MaxChanges == 1      \* contact lists replaced during one call

\* an author publishes a new contact list
ContactListReplaced ==
    /\ du.call = "calculate_du"
    /\ du.pc # "done"
    /\ du.changes < MaxChanges
    /\ \E a \in DOMAIN du.relay, l \in ContactLists :
          /\ l # du.relay[a]
          /\ du' = [du EXCEPT !.relay = [du.relay EXCEPT ![a] = l],
                              !.changes = du.changes + 1]
    /\ UNCHANGED besideDU

\* n1_list = await self._get_n1_list(user_pubkey)
AwaitN1List ==
    /\ du.call = "calculate_du"
    /\ du.pc = "n1_list"
    /\ du' = [du EXCEPT !.pc = "n2_list",
                        !.n1_list = _get_n1_list(du.relay, du.user).list]
    /\ UNCHANGED besideDU

\* n2_list = await self._get_n2_list(user_pubkey), which begins with
\* n1 = await self._get_n1_list(user_pubkey)
AwaitN2List ==
    /\ du.call = "calculate_du"
    /\ du.pc = "n2_list"
    /\ du' = [du EXCEPT !.pc = "done",
                        !.n1 = _get_n1_list(du.relay, du.user).list,
                        !.n2_list = _get_n2_list(du.relay, du.user).list]
    /\ UNCHANGED besideDU


----------------------------------------------------------------------------
(* DragonService (dragon/dragon_service.py): the operations of one service   *)
(* share one NostrClient and its one 'websocket' field.  An operation is     *)
(* connect, its queries one after the other, disconnect; it yields at each   *)
(* await, where another operation of the same event loop may run.  A socket  *)
(* is a number, 0 is None.                                                   *)

MaxOps == 2          \* operations running on the service
MaxQueries == 2      \* queries of one operation

Ops == 1..MaxOps

NoOp == [pc |-> "connect", using |-> 0, left |-> 0, foreign |-> FALSE]

\* self.websocket = await websockets.connect(self.relay_url)
Connected(d) ==
    [d EXCEPT !.websocket = d.sockets + 1,
              !.sockets = d.sockets + 1,
              !.open = d.open \cup {d.sockets + 1}]

\* DragonService.connect, the first await of an operation
ServiceConnect ==
    /\ dragon.part = "service"
    /\ \E o \in Ops :
          /\ dragon.ops[o].pc = "connect"
          /\ dragon' = [Connected(dragon) EXCEPT !.ops[o].pc = "query"]
    /\ UNCHANGED besideDragon

\* NostrClient.query_events up to its wait for the first message: connect
\* if there is no socket, send the REQ on self.websocket, iterate over it
QueryEventsSend ==
    /\ dragon.part = "service"
    /\ \E o \in Ops :
          /\ dragon.ops[o].pc = "query"
          /\ LET d == IF dragon.websocket = 0 THEN Connected(dragon) ELSE dragon
             IN dragon' = [d EXCEPT !.ops[o].pc = "receiving",
                                    !.ops[o].using = d.websocket]
    /\ UNCHANGED besideDragon

\* the messages up to EOSE, or the end of a socket that was closed; every
\* EVENT of the socket is taken, whatever its subscription id
QueryEventsReceive ==
    /\ dragon.part = "service"
    /\ \E o \in Ops :
          /\ dragon.ops[o].pc = "receiving"
          /\ \E foreign \in BOOLEAN :
                /\ foreign =>
                      /\ dragon.ops[o].using \in dragon.open
                      /\ \E p \in Ops \ {o} :
                            /\ dragon.ops[p].pc = "receiving"
                            /\ dragon.ops[p].using = dragon.ops[o].using
                /\ dragon' =
                      [dragon EXCEPT
                          !.ops[o].pc = IF dragon.ops[o].left > 1 THEN "query"
                                        ELSE "disconnect",
                          !.ops[o].left = dragon.ops[o].left - 1,
                          !.ops[o].foreign = dragon.ops[o].foreign \/ foreign]
    /\ UNCHANGED besideDragon

\* NostrClient.disconnect, in the finally of an operation
ServiceDisconnect ==
    /\ dragon.part = "service"
    /\ \E o \in Ops :
          /\ dragon.ops[o].pc = "disconnect"
          /\ dragon' = [dragon EXCEPT !.ops[o].pc = "done",
                                      !.open = dragon.open \ {dragon.websocket},
                                      !.websocket = 0]
    /\ UNCHANGED besideDragon


----------------------------------------------------------------------------
(* Specifications                                                           *)

\* the reconnect loop left out of a specification of another component: the
\* daemon is connected
DaemonIdle ==
    /\ key = "valid"
    /\ dpc = "open"
    /\ retry_count = 0
    /\ delay = 0
    /\ fails = 0
    /\ relayUp = TRUE
    /\ exit_code = -1

\* no query under way
QueryIdle == query = NoQuery

PageIdle == page = NoPage

DUIdle == du = NoDU

DragonIdle == dragon = NoDragon

\* the relay holds one permit request, perhaps the permit's definition and
\* credentials issued earlier; the daemon is subscribed
Init ==
    /\ \E permit \in RequestPermitIds :
         \E defs \in DefinitionSets(permit), prior \in PriorCredentialSets(permit) :
            events = {RequestEvent(permit)} \cup defs \cup prior
    /\ sent = <<>>
    /\ taken = 0
    /\ now = 0
    /\ libAvailable \in BOOLEAN
    /\ pc = "listening"
    /\ step = "none"
    /\ pid = <<>>
    /\ applied = NotApplied
    /\ gen = NotGenerated
    /\ DaemonIdle
    /\ QueryIdle
    /\ PageIdle
    /\ DUIdle
    /\ DragonIdle

Next ==
    \/ HandleAttestation
    \/ RelayStore
    \/ Tick

Spec == Init /\ [][Next]_vars

NextOrderly ==
    \/ HandleAttestationOrderly
    \/ RelayStore
    \/ Tick

SpecOrderly == Init /\ [][NextOrderly]_vars

InitPermit ==
    /\ pid \in PermitInputs
    /\ applied = NotApplied
    /\ events = {}
    /\ sent = <<>>
    /\ taken = 0
    /\ now = 0
    /\ libAvailable = TRUE
    /\ pc = "listening"
    /\ step = "none"
    /\ gen = NotGenerated
    /\ DaemonIdle
    /\ QueryIdle
    /\ PageIdle
    /\ DUIdle
    /\ DragonIdle

\* the relay holds a permit request and an event of another kind
InitOther ==
    /\ \E kind \in {KIND_CONTACTS, KIND_BON} :
          events = {RequestEvent(Id(<<"A","_","X","1">>)), OtherEvent(kind)}
    /\ sent = <<>>
    /\ taken = 0
    /\ now = 0
    /\ libAvailable \in BOOLEAN
    /\ pc = "listening"
    /\ step = "none"
    /\ pid = <<>>
    /\ applied = NotApplied
    /\ gen = NotGenerated
    /\ DaemonIdle
    /\ QueryIdle
    /\ PageIdle
    /\ DUIdle
    /\ DragonIdle

NextOther ==
    \/ HandleAttestation
    \/ HandleOtherAttestation
    \/ RelayStore
    \/ Tick

SpecOther == InitOther /\ [][NextOther]_vars

NextPermit == ApplyPermit

SpecPermit == InitPermit /\ [][NextPermit]_vars

\* the relay and the daemon at rest, as every specification of one of the other
\* components starts them
OracleIdle ==
    /\ events = {}
    /\ sent = <<>>
    /\ taken = 0
    /\ libAvailable = TRUE
    /\ pc = "listening"
    /\ step = "none"

PermitIdle == pid = <<>> /\ applied = NotApplied

InitGenerate ==
    /\ OracleIdle
    /\ PermitIdle
    /\ DaemonIdle
    /\ QueryIdle
    /\ PageIdle
    /\ DUIdle
    /\ DragonIdle
    /\ now \in 0..MaxTime
    /\ \E p \in GeneratePermitIds, v \in ValidityInputs :
          gen = [NotGenerated EXCEPT !.by = "input", !.permit_id = p,
                                     !.validity_days = v]

NextGenerate ==
    \/ Generate
    \/ OracleIssue

SpecGenerate == InitGenerate /\ [][NextGenerate]_vars

GenIdle == gen = NotGenerated

InitDaemon ==
    /\ OracleIdle
    /\ now = 0
    /\ PermitIdle
    /\ GenIdle
    /\ key \in Keys
    /\ dpc = "start"
    /\ retry_count = 0
    /\ delay = 0
    /\ fails = 0
    /\ relayUp \in BOOLEAN
    /\ exit_code = -1
    /\ QueryIdle
    /\ PageIdle
    /\ DUIdle
    /\ DragonIdle

NextDaemon ==
    \/ Start
    \/ ConnectOk
    \/ ConnectFail
    \/ ConnectionBroken
    \/ ConnectionEnds
    \/ Wake
    \/ ProcessEnds
    \/ KeyboardInterrupt
    \/ RelayChanges

SpecDaemon == InitDaemon /\ [][NextDaemon]_vars

\* a connection attempt ends (websockets.connect has an open timeout), a sleep
\* ends, and a function that can return does
SpecDaemonFair == SpecDaemon /\ WF_vars(DaemonStep)

\* every other component at rest, the call not yet made
InitQuery ==
    /\ OracleIdle
    /\ now = 0
    /\ PermitIdle
    /\ GenIdle
    /\ DaemonIdle
    /\ QueryIdle
    /\ PageIdle
    /\ DUIdle
    /\ DragonIdle

NextQuery ==
    \/ QueryStart
    \/ QueryReceive
    \/ QueryClose
    \/ QueryBreak

SpecQuery == InitQuery /\ [][NextQuery]_vars

\* query_events_paginated is entered with its arguments
InitPage ==
    /\ OracleIdle
    /\ now = 0
    /\ PermitIdle
    /\ GenIdle
    /\ DaemonIdle
    /\ QueryIdle
    /\ DUIdle
    /\ DragonIdle
    /\ \E ps \in 1..MaxPageSize, mr \in 0..MaxResults :
          page = [NoPage EXCEPT !.pc = "loop", !.page_size = ps, !.max_results = mr]

NextPage ==
    \/ PageQuery
    \/ PageLoopEnds

SpecPage == InitPage /\ [][NextPage]_vars

\* query_events_paginated is entered with its arguments; the relay holds at most
\* max_results matching events
InitPageStored ==
    /\ OracleIdle
    /\ now = 0
    /\ PermitIdle
    /\ GenIdle
    /\ DaemonIdle
    /\ QueryIdle
    /\ DUIdle
    /\ DragonIdle
    /\ \E ps \in 1..MaxPageSize, mr \in 0..MaxResults :
          \E store \in {S \in SUBSET StoredEvents : Cardinality(S) <= mr} :
             page = [NoPage EXCEPT !.pc = "loop", !.page_size = ps,
                                   !.max_results = mr, !.store = store]

NextPageStored ==
    \/ PageQueryStored
    \/ PageLoopEnds

SpecPageStored == InitPageStored /\ [][NextPageStored]_vars

\* the relay holds contact lists; a list of the social graph is asked for
InitContacts ==
    /\ OracleIdle
    /\ now = 0
    /\ PermitIdle
    /\ GenIdle
    /\ DaemonIdle
    /\ QueryIdle
    /\ PageIdle
    /\ DragonIdle
    /\ \E relay \in ContactRelays : du = [NoDU EXCEPT !.relay = relay]

NextContacts ==
    \/ GetN1List
    \/ GetN2List

SpecContacts == InitContacts /\ [][NextContacts]_vars

\* the relay holds the contact lists of a user and of the pubkeys the user
\* follows; a DU is asked for
InitDU ==
    /\ OracleIdle
    /\ now = 0
    /\ PermitIdle
    /\ GenIdle
    /\ DaemonIdle
    /\ QueryIdle
    /\ PageIdle
    /\ DragonIdle
    /\ \E relay \in StarRelays : du = [NoDU EXCEPT !.relay = relay]

NextDU ==
    \/ CalculateDU
    \/ CalculateDUSimple

SpecDU == InitDU /\ [][NextDU]_vars

\* the relay holds the circuits and the bons of a user; the parameters are
\* asked for
InitParams ==
    /\ OracleIdle
    /\ now = 0
    /\ PermitIdle
    /\ GenIdle
    /\ DaemonIdle
    /\ QueryIdle
    /\ PageIdle
    /\ DUIdle
    /\ \E loops \in LoopLists(MaxLoops), emitted_ttls \in TtlLists,
          expired_count \in ExpiredCounts, prev_loops \in PrevLoopCounts :
          dragon = [part |-> "params", loops |-> loops,
                    emitted_ttls |-> emitted_ttls,
                    expired_count |-> expired_count, prev_loops |-> prev_loops,
                    returned |-> FALSE, result |-> NoParams]

NextParams == GetAllParams

SpecParams == InitParams /\ [][NextParams]_vars

InitRates ==
    /\ OracleIdle
    /\ now = 0
    /\ PermitIdle
    /\ GenIdle
    /\ DaemonIdle
    /\ QueryIdle
    /\ PageIdle
    /\ DUIdle
    /\ \E circuits \in CircuitLists(MaxCircuits) :
          dragon = [part |-> "rates", circuits |-> circuits,
                    returned |-> FALSE, result |-> {}]

NextRates == CalculateIntermarketRates

SpecRates == InitRates /\ [][NextRates]_vars

InitBatch ==
    /\ OracleIdle
    /\ now = 0
    /\ PermitIdle
    /\ GenIdle
    /\ DaemonIdle
    /\ QueryIdle
    /\ PageIdle
    /\ DUIdle
    /\ \E batch \in Batches :
          dragon = [part |-> "batch", batch |-> batch, call |-> "none",
                    result |-> ReturnedValue(<<>>)]

NextBatch == GetCircuits \/ IntermarketRates \/ GetLoops30d

SpecBatch == InitBatch /\ [][NextBatch]_vars

InitMarket ==
    /\ OracleIdle
    /\ now = 0
    /\ PermitIdle
    /\ GenIdle
    /\ DaemonIdle
    /\ QueryIdle
    /\ PageIdle
    /\ DUIdle
    /\ \E market_id \in MarketNames, request \in DOMAIN Plans :
          dragon = [part |-> "market", market_id |-> market_id,
                    request |-> request, plan |-> Plans[request],
                    sent |-> <<>>]

NextMarket == SendActiveMassQuery \/ SendParamsQuery \/ SendIndexerQuery

SpecMarket == InitMarket /\ [][NextMarket]_vars

InitDUCall ==
    /\ OracleIdle
    /\ now = 0
    /\ PermitIdle
    /\ GenIdle
    /\ DaemonIdle
    /\ QueryIdle
    /\ PageIdle
    /\ DragonIdle
    /\ \E relay \in ContactRelays, user \in Authors :
          du = [relay |-> relay, call |-> "calculate_du", user |-> user,
                pc |-> "n1_list", changes |-> 0, n1_list |-> <<>>,
                n1 |-> <<>>, n2_list |-> <<>>]

NextDUCall == AwaitN1List \/ AwaitN2List \/ ContactListReplaced

SpecDUCall == InitDUCall /\ [][NextDUCall]_vars

InitService ==
    /\ OracleIdle
    /\ now = 0
    /\ PermitIdle
    /\ GenIdle
    /\ DaemonIdle
    /\ QueryIdle
    /\ PageIdle
    /\ DUIdle
    /\ \E left \in [Ops -> 1..MaxQueries] :
          dragon = [part |-> "service", websocket |-> 0, sockets |-> 0,
                    open |-> {},
                    ops |-> [o \in Ops |-> [NoOp EXCEPT !.left = left[o]]]]

NextService ==
    ServiceConnect \/ QueryEventsSend \/ QueryEventsReceive \/ ServiceDisconnect

SpecService == InitService /\ [][NextService]_vars

----------------------------------------------------------------------------
(* Properties                                                               *)

TheRequest == CHOOSE r \in events : r.kind = KIND_REQUEST

RequestPermit == TheRequest.permit_id

\* the EVENT frames written so far that carry a credential
SentCredentials == {i \in 1..Len(sent) : sent[i].kind = KIND_CREDENTIAL}

\* the permit id ends in _X<n> (community) or _V<n> (official)
CommunityId(permit) == LevelSuffixAt(permit, "X") # {}
OfficialId(permit) == LevelSuffixAt(permit, "V") # {}

\* every stored attestation comes from another user than the requester, and no
\* user has stored two
DistinctAttesters ==
    /\ \A a \in Attestations(events) : a.pubkey # Requester
    /\ \A a, b \in Attestations(events) : a.pubkey = b.pubkey => a = b

\* C1: whatever attestations for the request were handled (naming it by event id
\* or by `d`), each after the relay had stored everything published before, the
\* relay holds at most one Oracle credential per (issuer, holder, request id).
C1_OneCredentialPerRequest ==
    is_valid_permit_id(RequestPermit)
    => \A c1, c2 \in Credentials(events) :
          (c1.pubkey = c2.pubkey /\ c1.p = c2.p /\ c1.e = c2.e) => c1 = c2

\* C2: for a request on an official permit _V<n> (taken here at level 1, where
\* no parent credential is asked of an attester, and with the signature library
\* present), attestations of distinct attesters handled one after another: after
\* the first no credential has been published, after the second and after the
\* third exactly one.
C2_OfficialThreshold ==
    (/\ libAvailable
     /\ OfficialId(RequestPermit)
     /\ extract_level(RequestPermit) = 1
     /\ DistinctAttesters)
    => /\ Cardinality(Attestations(events)) = 1 => SentCredentials = {}
       /\ Cardinality(Attestations(events)) >= 2 => Cardinality(SentCredentials) = 1

\* C3: two credentials for one request that are in flight together (both calls
\* passed the existing-credential check before either was stored) carry the
\* same `d`, so that the relay keeps one of them.
C3_RacingCredentialsShareD ==
    \A i, j \in (taken + 1)..Len(sent) :
        (/\ is_valid_permit_id(RequestPermit)
         /\ sent[i].kind = KIND_CREDENTIAL
         /\ sent[j].kind = KIND_CREDENTIAL
         /\ sent[i].e = sent[j].e)
        => sent[i].d = sent[j].d

\* C4: handling an attestation whose author is the author of the request it
\* names writes no frame, whatever the relay holds.
C4_SelfAttestationPublishesNothing ==
    [][\A att \in AttestationPool :
          (att.pubkey = Requester /\ Handle(att)) => sent' = sent]_vars

\* the requester's own attestation was handled and dropped at step 3, while the
\* relay holds another user's attestation for the request, one short of the
\* threshold of an official permit: counted, the requester's would have met it
C4_Witness ==
    /\ step = "self"
    /\ libAvailable
    /\ AttestationEvent(Requester, ById) \in events
    /\ \E a \in Attestations(events) : a.pubkey # Requester /\ a.e = RequestEventId
    /\ RequestPermit = Id(<<"A","_","V","1">>)
    /\ sent = <<>>

C6_InvalidPermitPublishesNothing ==
    ~is_valid_permit_id(RequestPermit) => sent = <<>>

\* C7: every valid community id (_X<n>) has type wotx2 and needs one attestation,
\* by get_required_attestations and by _get_required_threshold; every valid
\* official id (_V<n>) has type official.
C7_CommunityNeedsOne ==
    (applied.done /\ applied.valid)
    => /\ CommunityId(pid) => /\ applied.type = TYPE_WOTX2
                              /\ applied.required = 1
                              /\ applied.threshold = 1
       /\ OfficialId(pid) => applied.type = TYPE_OFFICIAL

\* C8: a credential for an official permit whose definition gives
\* required_attestations = n is issued only with n unique attesters (the
\* attesters being users other than the requester).
C8_ThresholdFromDefinition ==
    DistinctAttesters =>
    \A i \in SentCredentials :
        \A def \in {v \in events : v.kind = KIND_PERMIT_DEF /\ v.d = sent[i].permit_id} :
            (OfficialId(sent[i].permit_id) /\ def.required > 0)
            => sent[i].attestations >= def.required

\* C9: without the signature library (the request on a valid permit id) no
\* EVENT frame is written and no call returns True; and the loop keeps listening
\* after any call, one in which signing raised included.
C9_NoLibraryNothingSent ==
    /\ (~libAvailable /\ is_valid_permit_id(RequestPermit))
          => (sent = <<>> /\ Returned # "True")
    /\ pc = "listening"

\* C10: for a request on a community permit (level 1, library present) with one
\* attestation, from another user V, handled: exactly one frame was written, a
\* kind-30503 event with p = the requester, the request's permit id, one
\* attestor tag per unique attester (here V) and expires = issued_at + 365 days.
C10_FirstAttestationCredential ==
    (/\ libAvailable
     /\ CommunityId(RequestPermit)
     /\ is_valid_permit_id(RequestPermit)
     /\ extract_level(RequestPermit) = 1
     /\ DistinctAttesters
     /\ Cardinality(Attestations(events)) = 1)
    => /\ Len(sent) = 1
       /\ sent[1].kind = KIND_CREDENTIAL
       /\ sent[1].p = Requester
       /\ sent[1].permit_id = RequestPermit
       /\ {sent[1].attestor[k] : k \in 1..Len(sent[1].attestor)}
              = {a.pubkey : a \in Attestations(events)}
       /\ Len(sent[1].attestor) = 1
       /\ sent[1].expires = sent[1].created_at + 365 * 86400

\* the default validity of a permit, in days
DefaultValidityDays(permit_id) ==
    IF Contains(permit_id, <<"L","I","C","E","N","S","E">>)
          \/ Contains(permit_id, <<"D","R","I","V","E","R">>) THEN 1825
    ELSE IF Contains(permit_id, <<"A","U","T","H","O","R","I","T","Y">>)
               \/ Contains(permit_id, <<"A","D","M","I","N">>) THEN 3650
    ELSE 365

\* C11: every credential produced, by generate with any arguments or by the
\* Oracle service, expires after it was issued, and exactly the default validity
\* of its permit after: 1825 days for LICENSE or DRIVER, 3650 for AUTHORITY or
\* ADMIN, 365 otherwise.
C11_ValidityOfPermit ==
    gen.by \in {"generate", "oracle"}
    => /\ gen.expires_at > gen.issued_at
       /\ gen.expires_at - gen.issued_at
              = DefaultValidityDays(gen.permit_id) * 86400

\* <base>_X<n> as the permit manager writes it
BaseX(permit_id, n) == extract_base_name(permit_id) \o <<"_", "X">> \o DecStr(n)

\* C12 as stated: for every valid id of level >= 2 the parent is <base>_X<level-1>
\* and the next level of the parent is the id itself; there is no parent exactly
\* when the level is 1.
C12_ParentRoundTrip ==
    (applied.done /\ applied.valid)
    => /\ applied.level >= 2
          => /\ applied.parent = BaseX(pid, applied.level - 1)
             /\ applied.next_of_parent = pid
       /\ applied.parent = None <=> applied.level = 1

\* C12 amended: for every valid id of level >= 2 the parent is <base>_X<level-1>
\* and the next level of the parent is <base>_X<level>, which is the id itself
\* exactly when the id is a community id whose level is written without leading
\* zeros; there is no parent exactly when the level is 0 or 1.
C12_ParentRoundTripCommunity ==
    (applied.done /\ applied.valid)
    => /\ applied.level >= 2
          => /\ applied.parent = BaseX(pid, applied.level - 1)
             /\ applied.next_of_parent = BaseX(pid, applied.level)
             /\ applied.next_of_parent = pid
                   <=> (CommunityId(pid) /\ LevelDigits(pid, "X") = DecStr(applied.level))
       /\ applied.parent = None <=> applied.level <= 1

\* the functions were applied to a valid community id of level 2
C12_Witness ==
    /\ applied.done
    /\ pid = Id(<<"A","_","X","2">>)
    /\ applied.parent = Id(<<"A","_","X","1">>)
    /\ applied.next_of_parent = pid

\* the reconnect loop has given up, or the process is over
Stopped == dpc \in {"returned", "exited", "interrupted"}

\* C13, the bookkeeping.  A failed try is a pass of the loop that ended in an
\* exception: the connection attempt failed, or the connection broke once open.
\* The sleep after the k-th consecutive one lasts 5*k seconds; the counter is the
\* number of consecutive failed tries, 0 once a connection is open; the loop
\* tries again only below 10 and gives up only at 10.
C13_Backoff ==
    /\ dpc = "sleeping" => delay = 5 * fails
    /\ dpc \in {"connecting", "open", "sleeping"} => retry_count = fails
    /\ dpc = "open" => retry_count = 0
    /\ dpc = "connecting" => fails < 10
    /\ (dpc = "returned" /\ key = "valid") => fails = 10

\* C13: the bookkeeping above at every moment, and when the relay never accepts
\* a connection the daemon eventually stops.
C13_ReconnectLoop == []C13_Backoff /\ ([]~relayUp => <>Stopped)

\* the loop gave up after ten failed tries in a row, the last sleep being of 50
\* seconds, the relay having never been up
C13_Witness ==
    /\ dpc = "returned"
    /\ key = "valid"
    /\ fails = 10
    /\ delay = 50
    /\ ~relayUp

\* C14: the process ends with status 0 only when it was interrupted (SIGINT),
\* with status 1 when ORACLE_NSEC_HEX is missing, and with status 2 when it gave
\* up after ten failed tries.
C14_ExitCodes ==
    dpc \in {"exited", "interrupted"}
    => /\ exit_code = 0 => dpc = "interrupted"
       /\ (dpc = "exited" /\ key = "missing") => exit_code = 1
       /\ (dpc = "exited" /\ key = "valid" /\ fails = 10) => exit_code = 2

RECURSIVE OwnEvents(_)
\* the events of the EVENT frames of the query's own subscription, in order
OwnEvents(fs) ==
    IF fs = <<>> THEN <<>>
    ELSE LET f == fs[Len(fs)]
             before == OwnEvents(SubSeq(fs, 1, Len(fs) - 1))
         IN  IF f.type = "EVENT" /\ f.sub = OwnSub THEN Append(before, f.event)
             ELSE before

\* C15: a query whose connection held returns exactly the events of the EVENT
\* frames of its own subscription, in receipt order, and stops reading only on
\* an EOSE or CLOSED frame of its own subscription.
C15_OwnSubscriptionOnly ==
    /\ (query.pc = "returned" /\ ~query.broke)
          => query.result = OwnEvents(query.received)
    /\ query.pc = "closing"
          => query.received[Len(query.received)].sub = OwnSub

\* C16: when the connection breaks after EVENT frames were received (all of the
\* query's own subscription), the caller gets a connection error together with
\* the events received so far.
C16_BrokenQueryBestEffort ==
    (/\ query.pc = "returned"
     /\ query.broke
     /\ query.events # <<>>
     /\ \A i \in 1..Len(query.received) :
            query.received[i].sub \in {OwnSub, ""})
    => /\ query.raised
       /\ query.result = query.events

\* the `until` cursor did not move to a strictly smaller timestamp with the
\* latest page: the filter of the next query would carry no `until`, or none
\* smaller than the filter of the previous query did
CursorStuck ==
    /\ page.page_count >= 1
    /\ LET before == page.queries[Len(page.queries)].until
           next == FilterUntil(page.until_timestamp)
       IN  ~next.set \/ (before.set /\ next.ts >= before.ts)

\* C17: a page query is issued only while no page was empty or shorter than
\* page_size, the cursor moved with every page, and fewer than max_results
\* events are collected; and what is returned has at most max_results events.
C17_PagingStops ==
    [][(\E received \in Pages : PagePass(received))
          => /\ page.page_count > 0
                   => /\ page.last # <<>>
                      /\ Len(page.last) >= page.page_size
                      /\ ~CursorStuck
                      /\ Len(page.all_events) < page.max_results
             /\ Len(page'.result) <= page.max_results]_vars


\* follows(a): the pubkeys the contact list of a names, none without a list
Follows(relay, a) ==
    IF a \in DOMAIN relay /\ relay[a].listed THEN PTags(relay[a].tags) ELSE {}

\* N1(user): the follows of the user that follow the user
ReciprocalFollows(relay, user) ==
    {f \in Follows(relay, user) : user \in Follows(relay, f)}

\* C18: whatever contact lists the relay holds, one per author,
\* _get_n1_list(user) returns the follows of the user that follow the user,
\* each once, after at most 2 relay queries; it returns nothing when the user
\* has no contact list or follows nobody.
C18_ReciprocalN1 ==
    du.call = "_get_n1_list" =>
        LET n1 == ReciprocalFollows(du.relay, du.user)
        IN /\ Members(du.list) = n1
           /\ Len(du.list) = Cardinality(n1)
           /\ du.queries <= 2
           /\ (~du.relay[du.user].listed \/ Follows(du.relay, du.user) = {})
                 => du.list = <<>>

\* both queries made, one follow kept and another dropped
C18_Witness ==
    /\ du.call = "_get_n1_list"
    /\ du.queries = 2
    /\ du.list # <<>>
    /\ Follows(du.relay, du.user) \ Members(du.list) # {}

CountableAttesters(evs) ==
    {v.pubkey : v \in {w \in Attestations(evs) :
        /\ w.pubkey # Requester
        /\ _verify_attestor_qualification(evs, TRUE, w.pubkey, RequestPermit)}}

\* C25: a credential the Oracle publishes counts only attesters that are not
\* the requester and that are qualified: the number it carries is at most the
\* number of such attesters among the attestations the relay holds.
C25_OnlyQualifiedOthersCount ==
    [][(/\ is_valid_permit_id(RequestPermit)
        /\ libAvailable
        /\ Len(sent') = Len(sent) + 1
        /\ sent'[Len(sent')].kind = KIND_CREDENTIAL)
          => sent'[Len(sent')].attestations
                <= Cardinality(CountableAttesters(events'))]_vars



\* C26: an attestation whose `e` tag is the id of an event of another kind than
\* 30501 never leads to a credential: no frame written carries a credential
\* for that event.
C26_RequestIsKind30501 ==
    \A i \in SentCredentials : sent[i].e # OtherEventId


\* C27: with a relay that holds at most max_results matching events and
\* answers every page query with the newest `limit` of them up to `until`,
\* query_events_paginated returns each of them exactly once.
C27_EachEventOnce ==
    page.pc = "returned" =>
        /\ Members(page.result) = page.store
        /\ Len(page.result) = Cardinality(page.store)


\* C29: every time the subscription ends, by an exception or by the relay
\* closing the connection normally, the daemon counts a failed try and sleeps
\* the backoff delay before it connects again.
C29_EveryEndBacksOff ==
    [][(dpc = "open" /\ dpc' \notin {"open", "interrupted"})
          => /\ dpc' = "sleeping"
             /\ retry_count' = retry_count + 1
             /\ delay' > 0]_vars


\* C21: whatever the relay holds, get_all_params returns c2 in [0.02, 0.25],
\* alpha in [0, 1] and ttl_optimal in [7, 365]; when the user has no closed
\* circuit with a positive age it returns c2 = 0.07, alpha = 0.3 and
\* ttl_optimal = 28.
C21_ParamsInRange ==
    (dragon.part = "params" /\ dragon.returned) =>
        /\ dragon.result.c2 >= 200 /\ dragon.result.c2 <= 2500
        /\ dragon.result.alpha >= 0 /\ dragon.result.alpha <= 1000
        /\ dragon.result.ttl_optimal >= 7 /\ dragon.result.ttl_optimal <= 365
        /\ (\A i \in 1..Len(dragon.loops) : dragon.loops[i].age_days <= 0)
              => /\ dragon.result.c2 = 700
                 /\ dragon.result.alpha = 300
                 /\ dragon.result.ttl_optimal = 28


\* C22: the inter-market rates hold, for each pair of markets with a
\* non-zero total flow, the two rates flow / total, each within [0,1] and
\* the two summing to one, and no entry for any other pair
C22_RatesOfEachPair ==
    (dragon.part = "rates" /\ dragon.returned) =>
        \A m1 \in Markets : \A m2 \in Markets :
            (m1 < m2) =>
                LET crossing == SelectSeq(dragon.circuits, CrossesMarkets)
                    ab == Flow(crossing, m1, m2)
                    ba == Flow(crossing, m2, m1)
                    entries == {e \in dragon.result :
                                   {e.from, e.to} = {m1, m2}}
                IN IF ab + ba # 0
                   THEN /\ {<<e.from, e.to>> : e \in entries}
                             = {<<m1, m2>>, <<m2, m1>>}
                        /\ Cardinality(entries) = 2
                        /\ \A e \in entries :
                              /\ e.rate >= 0
                              /\ e.rate <= 1000
                              /\ e.rate * (ab + ba)
                                    = 1000 * Flow(crossing, e.from, e.to)
                        /\ \A e1 \in entries : \A e2 \in entries :
                              (e1 # e2) => e1.rate + e2.rate = 1000
                   ELSE entries = {}


\* what a call makes of a batch
OfBatch(call, batch) ==
    IF call = "get_circuits" THEN get_circuits(batch)
    ELSE IF call = "calculate_intermarket_rates" THEN RatesOfBatch(batch)
    ELSE _get_loops_30d(batch)

\* C24: a call on a batch that holds events whose content is not JSON does
\* not fail: it returns what it returns on the other events of the batch
C24_MalformedEventDropped ==
    (dragon.part = "batch" /\ dragon.call # "none") =>
        LET well_formed(e) == e.valid_json
        IN /\ ~dragon.result.raised
           /\ dragon.result = OfBatch(dragon.call, SelectSeq(dragon.batch, well_formed))


\* the tag of a market name: the name itself when it is a tag already
MarketTag(m) ==
    IF Len(m) >= Len(MarketPrefix)
       /\ SubSeq(m, 1, Len(MarketPrefix)) = MarketPrefix
       /\ Cleaned(SubSeq(m, Len(MarketPrefix) + 1, Len(m)))
             = SubSeq(m, Len(MarketPrefix) + 1, Len(m))
    THEN m
    ELSE MarketPrefix \o Cleaned(m)

\* C23: every `#market` value sent while a request for a market name is
\* served is the tag of that name, never the raw name nor a tag prefixed twice
C23_OneMarketTag ==
    (dragon.part = "market") =>
        \A i \in 1..Len(dragon.sent) : dragon.sent[i] = MarketTag(dragon.market_id)


\* C30: the N1 list and the N2 list of one calculate_du call are disjoint,
\* and the N2 list is derived from that N1 list, whatever happens to the
\* contact lists of the relay during the call
C30_N2OfTheSameN1 ==
    (du.call = "calculate_du" /\ du.pc = "done") =>
        /\ Members(du.n1_list) \cap Members(du.n2_list) = {}
        /\ du.n1 = du.n1_list


\* C28: two operations on one DragonService do not interfere: the socket on
\* which an operation waits for the answer to its query is not closed by the
\* other operation, and an operation receives the events of its queries only
C28_NoInterference ==
    (dragon.part = "service") =>
        \A o \in Ops :
            /\ (dragon.ops[o].pc = "receiving")
                  => dragon.ops[o].using \in dragon.open
            /\ ~dragon.ops[o].foreign


\* C21 as amended: c2, alpha and ttl_optimal lie in their ranges; when no
\* closed circuit of the window has an age, c2 and ttl_optimal are their
\* defaults, and alpha is its default when fewer than five circuits carry a
\* skill_cert and 0 when five or more do
C21_ParamsInRangeOrDefault ==
    (dragon.part = "params" /\ dragon.returned) =>
        /\ dragon.result.c2 >= 200 /\ dragon.result.c2 <= 2500
        /\ dragon.result.alpha >= 0 /\ dragon.result.alpha <= 1000
        /\ dragon.result.ttl_optimal >= 7 /\ dragon.result.ttl_optimal <= 365
        /\ (\A i \in 1..Len(dragon.loops) : dragon.loops[i].age_days = 0)
              => /\ dragon.result.c2 = 700
                 /\ dragon.result.ttl_optimal = 28
                 /\ dragon.result.alpha =
                       IF Cardinality({i \in 1..Len(dragon.loops) :
                                          dragon.loops[i].skill_cert # 0}) < 5
                       THEN 300 ELSE 0

\* five circuits with a skill_cert and no age: alpha is 0
C21_Witness ==
    /\ dragon.part = "params"
    /\ dragon.returned
    /\ Len(dragon.loops) = 5
    /\ \A i \in 1..Len(dragon.loops) :
          dragon.loops[i].age_days = 0 /\ dragon.loops[i].skill_cert # 0
    /\ dragon.result.alpha = 0

=============================================================================
